---- MODULE Spec2Model ----
(***************************************************************************)
(* Value-extraction pipeline of the web interest tracker: the batch worker *)
(* (static / dynamic / fingerprint scrape, snapshot, trigger evaluation),  *)
(* the tracked-item routes (snapshots, repair-selector, failure) and the   *)
(* trigger routes (PATCH, DELETE), over one shared store.                  *)
(*                                                                         *)
(* Text is a sequence of one-character strings.  A decimal number is the   *)
(* record [n |-> mantissa, d |-> number of fractional digits], normalised  *)
(* so that equal values have equal records.                                *)
(***************************************************************************)
EXTENDS Integers, Sequences, FiniteSets, TLC

Null == "null"

\* the absent text (null / undefined), distinct from the empty string
NullText == <<Null>>

\* !text
Falsy(text) == text = NullText \/ text = <<>>

\* the absent row or object
NoRow == [none |-> TRUE]

\* the absent timestamp; the clock starts at 1
NoTime == 0

(* ------------------------------ text ---------------------------------- *)

Digits == {"0", "1", "2", "3", "4", "5", "6", "7", "8", "9"}

IsDigit(c) == c \in Digits

IsSpace(c) == c \in {" ", "\t", "\n"}

DigitVal(c) ==
  CASE c = "0" -> 0 [] c = "1" -> 1 [] c = "2" -> 2 [] c = "3" -> 3
    [] c = "4" -> 4 [] c = "5" -> 5 [] c = "6" -> 6 [] c = "7" -> 7
    [] c = "8" -> 8 [] c = "9" -> 9

RECURSIVE DropLeadingWs(_)
DropLeadingWs(s) ==
  IF s = <<>> THEN <<>>
  ELSE IF IsSpace(s[1]) THEN DropLeadingWs(Tail(s)) ELSE s

RECURSIVE DropTrailingWs(_)
DropTrailingWs(s) ==
  IF s = <<>> THEN <<>>
  ELSE IF IsSpace(s[Len(s)]) THEN DropTrailingWs(SubSeq(s, 1, Len(s) - 1)) ELSE s

\* String.prototype.trim
Trim(s) == DropTrailingWs(DropLeadingWs(s))

\* text.replace(/\s+/g, " ")
RECURSIVE CollapseWs(_)
CollapseWs(s) ==
  IF s = <<>> THEN <<>>
  ELSE IF IsSpace(s[1]) THEN <<" ">> \o CollapseWs(DropLeadingWs(s))
  ELSE <<s[1]>> \o CollapseWs(Tail(s))

\* match[0].replace(/,/g, "")
RECURSIVE StripCommas(_)
StripCommas(s) ==
  IF s = <<>> THEN <<>>
  ELSE IF s[1] = "," THEN StripCommas(Tail(s))
  ELSE <<s[1]>> \o StripCommas(Tail(s))

(* ----------------------------- numbers -------------------------------- *)

RECURSIVE Pow10(_)
Pow10(k) == IF k = 0 THEN 1 ELSE 10 * Pow10(k - 1)

RECURSIVE Normalize(_)
Normalize(x) ==
  IF x.d > 0 /\ x.n % 10 = 0 THEN Normalize([n |-> x.n \div 10, d |-> x.d - 1])
  ELSE x

Num(i) == [n |-> i, d |-> 0]

\* the absent number (null / undefined); every real number has d >= 0
NoNumber == [n |-> 0, d |-> -1]

\* typeof v === "number"
IsNumber(v) == v.d >= 0

NumLt(a, b) == a.n * Pow10(b.d) < b.n * Pow10(a.d)

NumEq(a, b) == a.n * Pow10(b.d) = b.n * Pow10(a.d)

RECURSIVE DigitsToInt(_)
DigitsToInt(s) ==
  IF s = <<>> THEN 0
  ELSE 10 * DigitsToInt(SubSeq(s, 1, Len(s) - 1)) + DigitVal(s[Len(s)])

\* Number(cleaned) for cleaned of the form -?\d+(\.\d+)?
ToNumber(cleaned) ==
  LET neg   == cleaned[1] = "-"
      body  == IF neg THEN Tail(cleaned) ELSE cleaned
      dots  == {i \in 1..Len(body) : body[i] = "."}
      dot   == IF dots = {} THEN Len(body) + 1 ELSE CHOOSE i \in dots : TRUE
      ip    == SubSeq(body, 1, dot - 1)
      fp    == SubSeq(body, dot + 1, Len(body))
      mag   == DigitsToInt(ip \o fp)
  IN  Normalize([n |-> IF neg THEN 0 - mag ELSE mag, d |-> Len(fp)])

(* ------------------------- parseNumericFromText ----------------------- *)

\* positions where /-?\d[\d,]*(\.\d+)?/ can start matching
MatchStarts(t) ==
  {i \in 1..Len(t) :
     \/ IsDigit(t[i])
     \/ (t[i] = "-" /\ i < Len(t) /\ IsDigit(t[i + 1]))}

\* last index of the greedy run of characters of set S starting at index i
\* (i - 1 when t[i] is not in S)
RECURSIVE RunEnd(_, _, _)
RunEnd(t, i, S) ==
  IF i <= Len(t) /\ t[i] \in S THEN RunEnd(t, i + 1, S) ELSE i - 1

\* mutant: the fraction of the token is not matched
FirstMatchInteger(t) ==
  LET starts == MatchStarts(t)
      s      == CHOOSE i \in starts : \A j \in starts : i <= j
      d0     == IF t[s] = "-" THEN s + 1 ELSE s
      e1     == RunEnd(t, d0 + 1, Digits \cup {","})
  IN  SubSeq(t, s, e1)

\* the leftmost match of the regular expression in t, greedy
FirstMatch(t) ==
  LET starts == MatchStarts(t)
      s      == CHOOSE i \in starts : \A j \in starts : i <= j
      d0     == IF t[s] = "-" THEN s + 1 ELSE s
      e1     == RunEnd(t, d0 + 1, Digits \cup {","})
      hasFr  == e1 + 2 <= Len(t) /\ t[e1 + 1] = "." /\ IsDigit(t[e1 + 2])
      e2     == IF hasFr THEN RunEnd(t, e1 + 2, Digits) ELSE e1
  IN  SubSeq(t, s, e2)

parseNumericFromText(text) ==
  LET t == CollapseWs(text)
  IN  IF MatchStarts(t) = {} THEN NoNumber
      ELSE ToNumber(StripCommas(FirstMatch(t)))

(* --------------------------- comparisons ------------------------------ *)

\* mutant: "lte" and "gte" decided as "lt" and "gt"
meetsComparisonStrict(value, comparison, threshold) ==
  CASE comparison = "lt"  -> NumLt(value, threshold)
    [] comparison = "lte" -> NumLt(value, threshold)
    [] comparison = "gt"  -> NumLt(threshold, value)
    [] comparison = "gte" -> NumLt(threshold, value)
    [] comparison = "eq"  -> NumEq(value, threshold)
    [] comparison = "neq" -> ~NumEq(value, threshold)
    [] OTHER              -> FALSE

\* trackedItems.ts: meetsComparison(value, comparison, threshold)
meetsComparison(value, comparison, threshold) ==
  CASE comparison = "lt"  -> NumLt(value, threshold)
    [] comparison = "lte" -> NumLt(value, threshold) \/ NumEq(value, threshold)
    [] comparison = "gt"  -> NumLt(threshold, value)
    [] comparison = "gte" -> NumLt(threshold, value) \/ NumEq(value, threshold)
    [] comparison = "eq"  -> NumEq(value, threshold)
    [] comparison = "neq" -> ~NumEq(value, threshold)
    [] OTHER              -> FALSE

\* mutant: the worker compares the wrong way round for "lt"
workerMatchesSwapped(numeric, trig) ==
  \/ (trig.comparison = "lt"  /\ NumLt(trig.threshold, numeric))
  \/ (trig.comparison = "gte" /\ (NumLt(trig.threshold, numeric) \/ NumEq(numeric, trig.threshold)))

\* worker: the inline condition of processTrackedItem
workerMatches(numeric, trig) ==
  \/ (trig.comparison = "lt"  /\ NumLt(numeric, trig.threshold))
  \/ (trig.comparison = "lte" /\ (NumLt(numeric, trig.threshold) \/ NumEq(numeric, trig.threshold)))
  \/ (trig.comparison = "gt"  /\ NumLt(trig.threshold, numeric))
  \/ (trig.comparison = "gte" /\ (NumLt(trig.threshold, numeric) \/ NumEq(numeric, trig.threshold)))
  \/ (trig.comparison = "eq"  /\ NumEq(numeric, trig.threshold))
  \/ (trig.comparison = "neq" /\ ~NumEq(numeric, trig.threshold))

(* ----------------------------- extractors ----------------------------- *)

\* A fingerprint is NoRow or [hasPath, path]; a node is [tag, classes, nthOfType]
\* with nthOfType = 0 for null.  A selector is a sequence of string tokens.

RECURSIVE JoinTokens(_, _)
JoinTokens(parts, sep) ==
  IF parts = <<>> THEN <<>>
  ELSE IF Len(parts) = 1 THEN parts[1]
  ELSE parts[1] \o <<sep>> \o JoinTokens(Tail(parts), sep)

cssFromNodeDescriptor(node) ==
  LET tag         == IF node.tag = "" THEN "div" ELSE node.tag
      safeClasses == SelectSeq(node.classes, LAMBDA c : c # "")
      withClasses == IF Len(safeClasses) > 0
                     THEN <<tag, ".">> \o JoinTokens([i \in 1..Len(safeClasses) |-> <<safeClasses[i]>>], ".")
                     ELSE <<tag>>
  IN  IF node.nthOfType > 0
      THEN withClasses \o <<":nth-of-type(", ToString(node.nthOfType), ")">>
      ELSE withClasses

\* mutant: the fragments are joined from the target up to the outermost node
cssFromFingerprintReversed(fp) ==
  IF ~fp.hasPath \/ Len(fp.path) = 0 THEN <<>>
  ELSE JoinTokens([i \in 1..Len(fp.path) |-> cssFromNodeDescriptor(fp.path[Len(fp.path) + 1 - i])], " > ")

cssFromFingerprint(fp) ==
  IF ~fp.hasPath \/ Len(fp.path) = 0 THEN <<>>
  ELSE JoinTokens([i \in 1..Len(fp.path) |-> cssFromNodeDescriptor(fp.path[i])], " > ")

\* mutant: the first of several candidates is taken
tryFingerprintFallbackFirst(fingerprint, matches) ==
  IF fingerprint = NoRow THEN NullText
  ELSE IF ~fingerprint.hasPath \/ Len(fingerprint.path) = 0 THEN NullText
  ELSE IF Len(matches) = 0 THEN NullText
  ELSE IF Trim(matches[1]) = <<>> THEN NullText
  ELSE Trim(matches[1])

\* matches: the innerText of every element page.locator(css) finds, in order
tryFingerprintFallback(fingerprint, matches) ==
  IF fingerprint = NoRow THEN NullText
  ELSE IF ~fingerprint.hasPath \/ Len(fingerprint.path) = 0 THEN NullText
  ELSE IF cssFromFingerprint(fingerprint) = <<>> THEN NullText
  ELSE IF Len(matches) # 1 THEN NullText
  ELSE IF Trim(matches[1]) = <<>> THEN NullText
  ELSE Trim(matches[1])

\* mutant: a fetch that never gives up with an error
fetchHtmlLenient(outcomes, retry) == "html"

\* outcomes: what each successive HTTP attempt does ("ok", "http_error",
\* "network_error"); the result is "html" or "throw"
RECURSIVE fetchHtml(_, _)
fetchHtml(outcomes, retry) ==
  IF Head(outcomes) = "ok" THEN "html"
  ELSE IF retry > 0 THEN fetchHtml(Tail(outcomes), retry - 1)
  ELSE "throw"

DefaultRetry == 1

\* the number of attempts of fetchHtml(url, retry) that failed
RECURSIVE failedAttempts(_, _)
failedAttempts(outcomes, retry) ==
  IF Head(outcomes) = "ok" THEN 0
  ELSE IF retry > 0 THEN 1 + failedAttempts(Tail(outcomes), retry - 1)
  ELSE 1

\* elems: the text of every element the selector matches in the fetched markup
tryStaticScrape(outcomes, elems) ==
  IF fetchHtml(outcomes, DefaultRetry) = "throw" THEN NullText
  ELSE IF Len(elems) = 0 THEN NullText
  ELSE IF Trim(elems[1]) = <<>> THEN NullText
  ELSE Trim(elems[1])

\* mutant: the fingerprint fallback is tried before the literal selector
tryDynamicScrapeFingerprintFirst(item, enabled, gotoOk, literal, fpMatches) ==
  IF ~enabled THEN [threw |-> FALSE, text |-> NullText, tier |-> "disabled"]
  ELSE IF ~gotoOk THEN [threw |-> TRUE, text |-> NullText, tier |-> "throw"]
  ELSE IF ~Falsy(tryFingerprintFallback(item.fingerprint, fpMatches))
       THEN [threw |-> FALSE, text |-> tryFingerprintFallback(item.fingerprint, fpMatches),
             tier |-> "fingerprint"]
  ELSE IF Len(literal) > 0 /\ Trim(literal[1]) # <<>>
       THEN [threw |-> FALSE, text |-> Trim(literal[1]), tier |-> "literal"]
  ELSE [threw |-> FALSE, text |-> NullText, tier |-> "none"]

\* the result is [threw, text, tier]
tryDynamicScrape(item, enabled, gotoOk, literal, fpMatches) ==
  IF ~enabled THEN [threw |-> FALSE, text |-> NullText, tier |-> "disabled"]
  ELSE IF ~gotoOk THEN [threw |-> TRUE, text |-> NullText, tier |-> "throw"]
  ELSE IF Len(literal) > 0 /\ Trim(literal[1]) # <<>>
       THEN [threw |-> FALSE, text |-> Trim(literal[1]), tier |-> "literal"]
  ELSE IF ~Falsy(tryFingerprintFallback(item.fingerprint, fpMatches))
       THEN [threw |-> FALSE, text |-> tryFingerprintFallback(item.fingerprint, fpMatches),
             tier |-> "fingerprint"]
  ELSE [threw |-> FALSE, text |-> NullText, tier |-> "none"]

(* ------------------------------ bounds -------------------------------- *)

MaxSnapshots == 2

MaxClock == 8

\* the timestamps left to take in the slices that start late
MaxTicks == 2

MaxFailures == 4

MaxTextLen == 4

MaxPathLen == 2

(* ------------------------------ inputs -------------------------------- *)

T90 == <<"$", "9", "0">>

T80 == <<"8", "0">>

Tna == <<"n", "/", "a">>

\* raw element texts: whitespace only, and the three texts with padding
ElemLists ==
  { <<>>, << <<" ">> >>, << <<" ", "$", "9", "0", " ">> >>,
    << <<"n", "/", "a">> >>, << <<"$", "9", "0">>, <<"n", "/", "a">> >>,
    << <<" ">>, <<"$", "9", "0">> >> }

FetchOutcomes == {"ok", "http_error", "network_error"}

\* request bodies of POST /:id/snapshots: valueRaw absent, empty, or a text
BodyValues == {NullText, <<>>, T90, Tna}

NoSuchItem == 9

\* ids a request may carry: 0 (invalid), existing items, a missing item
RequestIds(its) == {0, NoSuchItem} \cup DOMAIN its

Proposals ==
  { [selector |-> ".new-price", sampleText |-> T80, type |-> Null, valueNumeric |-> NoNumber],
    [selector |-> ".cost", sampleText |-> T90, type |-> "number", valueNumeric |-> Num(95)] }

\* request bodies of PATCH /triggers/:id
PatchBodies ==
  { [active |-> "false", threshold |-> NoNumber, comparison |-> Null],
    [active |-> "true", threshold |-> NoNumber, comparison |-> Null],
    [active |-> "absent", threshold |-> Num(95), comparison |-> "gte"],
    [active |-> "absent", threshold |-> Num(100), comparison |-> "lt"],
    [active |-> "absent", threshold |-> NoNumber, comparison |-> "bogus"],
    [active |-> "absent", threshold |-> NoNumber, comparison |-> Null] }

FAILURE_THRESHOLD == 3

(* ------------------------------- state -------------------------------- *)

VARIABLES
  items,          \* TrackedItem rows by id
  snapshots,      \* Snapshot rows, in id order (the id is the index)
  triggers,       \* Trigger rows by id
  events,         \* TriggerEvent rows, in creation order
  clock,          \* the next value new Date() returns
  enableDynamic,  \* ENABLE_DYNAMIC
  mode,           \* "seq": invocations and requests never overlap; "par": they may
  w,              \* the batch worker: position and locals of runOnce / processTrackedItem
  req,            \* the API requests in flight: position and locals of each handler
  call,           \* one call of a pure function: its arguments and its result
  ext,            \* the extension: position and locals of refreshTrackedItems
  browser,        \* sharedBrowser and the Chromium instances and pages of the process
  dyn             \* invocations of tryDynamicScrape running side by side: position and locals

vars == <<items, snapshots, triggers, events, clock, enableDynamic, mode, w, req, call, ext, browser, dyn>>

\* everything but the call of a pure function
system == <<items, snapshots, triggers, events, clock, enableDynamic, mode, w, req, ext, browser, dyn>>

Fingerprint1 ==
  [hasPath |-> TRUE,
   path |-> << [tag |-> "div", classes |-> <<"product">>, nthOfType |-> 1],
               [tag |-> "span", classes |-> <<"price", "">>, nthOfType |-> 2] >>]

ItemRow(fp, active) ==
  [selector |-> ".price", sampleText |-> T90, type |-> "price", fingerprint |-> fp,
   consecutiveFailures |-> 0, lastSuccessAt |-> NoTime, lastFailureAt |-> NoTime,
   isActive |-> active]

TriggerRow(itemId, comparison, threshold) ==
  [exists |-> TRUE, trackedItemId |-> itemId, comparison |-> comparison,
   threshold |-> threshold, active |-> TRUE, lastFiredAt |-> NoTime]

\* a deleted Trigger row
DeletedTrigger ==
  [exists |-> FALSE, trackedItemId |-> 0, comparison |-> Null,
   threshold |-> NoNumber, active |-> FALSE, lastFiredAt |-> NoTime]

SnapshotRow(itemId, raw, numeric, status) ==
  [trackedItemId |-> itemId, valueRaw |-> raw, valueNumeric |-> numeric, status |-> status]

WorkerIdle ==
  [pc |-> "start", queue |-> <<>>, id |-> 0, item |-> NoRow, text |-> NullText,
   numeric |-> NoNumber, snapId |-> 0, trigs |-> <<>>, ti |-> 0,
   loaded |-> FALSE, made |-> 0, tier |-> "none", fetchFailures |-> 0,
   dynamicTried |-> FALSE]

RequestIdle ==
  [op |-> "none", pc |-> "idle", id |-> 0, item |-> NoRow, valueRaw |-> NullText,
   numeric |-> NoNumber, now |-> NoTime, snapId |-> 0, trigs |-> <<>>, ti |-> 0,
   proposal |-> NoRow, sampleText |-> NullText, status |-> 0, count |-> 0,
   shouldRepair |-> FALSE]

(* ------------------------------ helpers ------------------------------- *)

RECURSIVE SortedSeq(_)
SortedSeq(S) ==
  IF S = {} THEN <<>>
  ELSE LET m == CHOOSE x \in S : \A y \in S : x <= y
       IN  <<m>> \o SortedSeq(S \ {m})

\* prisma.trigger.findMany({ where: { trackedItemId, active: true } })
ActiveTriggersOf(itemId) ==
  LET ids == {t \in DOMAIN triggers :
                /\ triggers[t].exists
                /\ triggers[t].trackedItemId = itemId
                /\ triggers[t].active}
      order == SortedSeq(ids)
  IN  [i \in 1..Len(order) |->
         [id |-> order[i], comparison |-> triggers[order[i]].comparison,
          threshold |-> triggers[order[i]].threshold,
          lastFiredAt |-> triggers[order[i]].lastFiredAt]]

\* the condition under which the worker fires a loaded Trigger
workerFires(numeric, trig) ==
  trig.lastFiredAt = NoTime /\ workerMatches(numeric, trig)

\* the condition under which the live snapshot route fires a loaded Trigger
routeFires(numeric, trig) ==
  trig.lastFiredAt = NoTime /\ meetsComparison(numeric, trig.comparison, trig.threshold)

\* the next index >= from of the loop `for (const trig of triggers)` whose
\* condition holds (fires[i]), 0 when the loop ends
NextMatch(fires, from) ==
  LET hits == {i \in from..Len(fires) : fires[i]}
  IN  IF hits = {} THEN 0 ELSE CHOOSE i \in hits : \A j \in hits : i <= j

WorkerFlags(trigs, numeric) == [i \in 1..Len(trigs) |-> workerFires(numeric, trigs[i])]

RouteFlags(trigs, numeric) == [i \in 1..Len(trigs) |-> routeFires(numeric, trigs[i])]

\* the most recent ok Snapshot of an item (include: snapshots, take 1), 0 if none
LastOkSnapshot(itemId) ==
  LET oks == {i \in 1..Len(snapshots) :
                snapshots[i].trackedItemId = itemId /\ snapshots[i].status = "ok"}
  IN  IF oks = {} THEN 0 ELSE CHOOSE i \in oks : \A j \in oks : j <= i

WorkerBusy == w.pc \notin {"start", "loop", "finished"}

RequestBusy(r) == req[r].pc # "idle"

\* in "seq" mode an invocation or request starts only when nothing else runs
MayStart == mode = "seq" => (~WorkerBusy /\ \A r \in DOMAIN req : ~RequestBusy(r))

(* --------------------------- the shared browser ----------------------- *)

\* A browser state is [shared, launched, open, pages, closes]: sharedBrowser
\* (0 for null, else the instance), the number of instances launched by the
\* process, the instances still open, the number of open pages, and the
\* number of completed browser.close() calls.

\* let sharedBrowser = null, nothing launched
NoBrowser == [shared |-> 0, launched |-> 0, open |-> {}, pages |-> 0, closes |-> 0]

\* mutant: every call launches
getBrowserAlways(b) ==
  [b EXCEPT !.launched = @ + 1, !.open = @ \cup {b.launched + 1}, !.shared = b.launched + 1]

\* getBrowser() with nothing running in between: reuse or launch
getBrowser(b) ==
  IF b.shared # 0 THEN b
  ELSE [b EXCEPT !.launched = @ + 1, !.open = @ \cup {b.launched + 1}, !.shared = b.launched + 1]

\* closeBrowser()
closeBrowser(b) ==
  IF b.shared # 0
  THEN [b EXCEPT !.open = @ \ {b.shared}, !.closes = @ + 1, !.shared = 0]
  ELSE b

\* browser.newPage()
newPage(b) == [b EXCEPT !.pages = @ + 1]

\* page.close()
closePage(b) == [b EXCEPT !.pages = @ - 1]

\* the browser after one whole tryDynamicScrape of a sequential run
browserAfterScrape(b, enabled) ==
  IF enabled THEN closePage(newPage(getBrowser(b))) ELSE b

(* --------------------------- the batch worker ------------------------- *)

\* runOnce: prisma.trackedItem.findMany()
RunOnceStart ==
  /\ w.pc = "start"
  /\ w' = [w EXCEPT !.pc = "loop", !.queue = SortedSeq(DOMAIN items)]
  /\ UNCHANGED <<items, snapshots, triggers, events, clock, enableDynamic, mode, req, call, ext, browser, dyn>>

\* runOnce: the item list is exhausted; the promise settles and the
\* finally block runs
RunOnceEnd ==
  /\ w.pc = "loop"
  /\ w.queue = <<>>
  /\ w' = [w EXCEPT !.pc = "finished"]
  /\ browser' = closeBrowser(browser)
  /\ UNCHANGED <<items, snapshots, triggers, events, clock, enableDynamic, mode, req, call, ext, dyn>>

\* the process exits; the next scheduled run starts a fresh one
WorkerExit ==
  /\ w.pc = "finished"
  /\ w' = WorkerIdle
  /\ browser' = NoBrowser
  /\ UNCHANGED <<items, snapshots, triggers, events, clock, enableDynamic, mode, req, call, ext, dyn>>

\* processTrackedItem(id): findUnique, and the early return for a missing item
ProcessStart ==
  /\ w.pc = "loop"
  /\ w.queue # <<>>
  /\ MayStart
  /\ LET id == Head(w.queue)
     IN  w' = IF id \in DOMAIN items
               THEN [WorkerIdle EXCEPT !.pc = "static", !.queue = Tail(w.queue),
                                       !.id = id, !.item = items[id]]
               ELSE [WorkerIdle EXCEPT !.pc = "ret", !.queue = Tail(w.queue), !.id = id]
  /\ UNCHANGED <<items, snapshots, triggers, events, clock, enableDynamic, mode, req, call, ext, browser, dyn>>

\* 1) tryStaticScrape(item)
StaticScrape(outcomes, elems) ==
  /\ w.pc = "static"
  /\ LET text == tryStaticScrape(outcomes, elems)
     IN  w' = [w EXCEPT !.text = text,
                        !.fetchFailures = failedAttempts(outcomes, DefaultRetry),
                        !.tier = IF Falsy(text) THEN "none" ELSE "static",
                        !.pc = IF Falsy(text) THEN "dynamic" ELSE "store"]
  /\ UNCHANGED <<items, snapshots, triggers, events, clock, enableDynamic, mode, req, call, ext, browser, dyn>>

\* fetchHtml: `await fetch(url, { headers })` carries no signal and no timer,
\* so against a server that keeps the exchange open the promise stays pending
FetchNeverSettles ==
  /\ w.pc = "static"
  /\ w' = [w EXCEPT !.pc = "fetching"]
  /\ UNCHANGED <<items, snapshots, triggers, events, clock, enableDynamic, mode, req, call, ext, browser, dyn>>

\* 2) if (!text) text = await tryDynamicScrape(item)
DynamicScrape(gotoOk, literal, fpMatches) ==
  /\ w.pc = "dynamic"
  /\ LET res == tryDynamicScrape(w.item, enableDynamic, gotoOk, literal, fpMatches)
     IN  w' = [w EXCEPT !.text = res.text, !.tier = res.tier, !.dynamicTried = TRUE,
                        !.pc = IF res.threw THEN "catch" ELSE "store"]
  /\ browser' = browserAfterScrape(browser, enableDynamic)
  /\ UNCHANGED <<items, snapshots, triggers, events, clock, enableDynamic, mode, req, call, ext, dyn>>

\* mutant: an empty result is stored as an ok Snapshot
classifyEmptyAsOk(text) ==
  IF Falsy(text) THEN SnapshotRow(0, <<>>, NoNumber, "ok")
  ELSE SnapshotRow(0, text, parseNumericFromText(text), "ok")

\* mutant: the missing Snapshot carries the number 0
classifyMissingAsZero(text) ==
  IF Falsy(text) THEN SnapshotRow(0, <<>>, Num(0), "missing")
  ELSE SnapshotRow(0, text, parseNumericFromText(text), "ok")

\* the status and values of the Snapshot processTrackedItem writes for `text`
classify(text) ==
  IF Falsy(text) THEN SnapshotRow(0, <<>>, NoNumber, "missing")
  ELSE SnapshotRow(0, text, parseNumericFromText(text), "ok")

\* 3) and 4): the missing or the ok Snapshot; an ok one with a number goes on
\* to the triggers
StoreSnapshot ==
  /\ w.pc = "store"
  /\ Len(snapshots) < MaxSnapshots
  /\ LET row == [classify(w.text) EXCEPT !.trackedItemId = w.id]
     IN  /\ snapshots' = Append(snapshots, row)
         /\ w' = [w EXCEPT !.numeric = row.valueNumeric,
                           !.snapId = Len(snapshots) + 1,
                           !.made = w.made + 1,
                           !.pc = IF row.status = "ok" /\ IsNumber(row.valueNumeric)
                                  THEN "load" ELSE "ret"]
  /\ UNCHANGED <<items, triggers, events, clock, enableDynamic, mode, req, call, ext, browser, dyn>>

\* prisma.trigger.findMany, then the loop up to the first Trigger that fires
LoadTriggers ==
  /\ w.pc = "load"
  /\ LET trigs == ActiveTriggersOf(w.id)
         ti    == NextMatch(WorkerFlags(trigs, w.numeric), 1)
     IN  w' = [w EXCEPT !.trigs = trigs, !.ti = ti, !.loaded = TRUE,
                        !.pc = IF ti = 0 THEN "ret" ELSE "create"]
  /\ UNCHANGED <<items, snapshots, triggers, events, clock, enableDynamic, mode, req, call, ext, browser, dyn>>

\* mutant: the event references the latest Snapshot, re-fetched
CreateEventLatest ==
  /\ w.pc = "create"
  /\ IF triggers[w.trigs[w.ti].id].exists
     THEN /\ events' = Append(events, [triggerId |-> w.trigs[w.ti].id, snapshotId |-> Len(snapshots)])
          /\ w' = [w EXCEPT !.pc = "stamp"]
     ELSE /\ w' = [w EXCEPT !.pc = "catch"]
          /\ UNCHANGED events
  /\ UNCHANGED <<items, snapshots, triggers, clock, enableDynamic, mode, req, call, ext, browser, dyn>>

\* prisma.triggerEvent.create; the foreign key fails when the Trigger is gone
CreateEvent ==
  /\ w.pc = "create"
  /\ IF triggers[w.trigs[w.ti].id].exists
     THEN /\ events' = Append(events, [triggerId |-> w.trigs[w.ti].id, snapshotId |-> w.snapId])
          /\ w' = [w EXCEPT !.pc = "stamp"]
     ELSE /\ w' = [w EXCEPT !.pc = "catch"]
          /\ UNCHANGED events
  /\ UNCHANGED <<items, snapshots, triggers, clock, enableDynamic, mode, req, call, ext, browser, dyn>>

\* prisma.trigger.update({ lastFiredAt: new Date() }), then the loop goes on;
\* the update throws when the Trigger is gone
StampTrigger ==
  /\ w.pc = "stamp"
  /\ IF triggers[w.trigs[w.ti].id].exists
     THEN /\ clock < MaxClock
          /\ triggers' = [triggers EXCEPT ![w.trigs[w.ti].id].lastFiredAt = clock]
          /\ clock' = clock + 1
          /\ LET ti == NextMatch(WorkerFlags(w.trigs, w.numeric), w.ti + 1)
             IN  w' = [w EXCEPT !.ti = ti, !.pc = IF ti = 0 THEN "ret" ELSE "create"]
     ELSE /\ w' = [w EXCEPT !.pc = "catch"]
          /\ UNCHANGED <<triggers, clock>>
  /\ UNCHANGED <<items, snapshots, events, enableDynamic, mode, req, call, ext, browser, dyn>>

\* mutant: a failed item ends the loop of runOnce
CatchErrorStopping ==
  /\ w.pc = "catch"
  /\ Len(snapshots) < MaxSnapshots
  /\ snapshots' = Append(snapshots, SnapshotRow(w.id, <<>>, NoNumber, "error"))
  /\ w' = [w EXCEPT !.made = w.made + 1, !.pc = "ret", !.queue = <<>>]
  /\ UNCHANGED <<items, triggers, events, clock, enableDynamic, mode, req, call, ext, browser, dyn>>

\* mutant: the catch block also counts a failure on the item
CatchErrorCounting ==
  /\ w.pc = "catch"
  /\ Len(snapshots) < MaxSnapshots
  /\ snapshots' = Append(snapshots, SnapshotRow(w.id, <<>>, NoNumber, "error"))
  /\ items' = [items EXCEPT ![w.id].consecutiveFailures = @ + 1]
  /\ w' = [w EXCEPT !.made = w.made + 1, !.pc = "ret"]
  /\ UNCHANGED <<triggers, events, clock, enableDynamic, mode, req, call, ext, browser, dyn>>

\* catch (err): the error Snapshot
CatchError ==
  /\ w.pc = "catch"
  /\ Len(snapshots) < MaxSnapshots
  /\ snapshots' = Append(snapshots, SnapshotRow(w.id, <<>>, NoNumber, "error"))
  /\ w' = [w EXCEPT !.made = w.made + 1, !.pc = "ret"]
  /\ UNCHANGED <<items, triggers, events, clock, enableDynamic, mode, req, call, ext, browser, dyn>>

\* catch (err): prisma.snapshot.create rejects, so processTrackedItem and
\* with it runOnce reject
CatchErrorRejects ==
  /\ w.pc = "catch"
  /\ w' = [w EXCEPT !.pc = "rejected"]
  /\ UNCHANGED <<items, snapshots, triggers, events, clock, enableDynamic, mode, req, call, ext, browser, dyn>>

\* main: .catch logs the rejection, .finally closes the browser
RunOnceRejected ==
  /\ w.pc = "rejected"
  /\ w' = [w EXCEPT !.pc = "failed"]
  /\ browser' = closeBrowser(browser)
  /\ UNCHANGED <<items, snapshots, triggers, events, clock, enableDynamic, mode, req, call, ext, dyn>>

\* the host kills the process in the middle of a run: no handler of the
\* program runs; the runtime may or may not take the Chromium instances down
HostAbort(killed) ==
  /\ w.pc \notin {"start", "finished", "failed", "aborted"}
  /\ w' = [w EXCEPT !.pc = "aborted"]
  /\ browser' = IF killed THEN [browser EXCEPT !.open = {}, !.pages = 0] ELSE browser
  /\ UNCHANGED <<items, snapshots, triggers, events, clock, enableDynamic, mode, req, call, ext, dyn>>

\* processTrackedItem returns to the loop of runOnce
ProcessReturn ==
  /\ w.pc = "ret"
  /\ w' = [WorkerIdle EXCEPT !.pc = "loop", !.queue = w.queue]
  /\ UNCHANGED <<items, snapshots, triggers, events, clock, enableDynamic, mode, req, call, ext, browser, dyn>>

(* ------------- tryDynamicScrape, one await at a time ------------------ *)

\* tryDynamicScrape(items[t]) is entered: the ENABLE_DYNAMIC test and the
\* test of getBrowser; chromium.launch() is awaited when sharedBrowser is null
DynEnter(t) ==
  /\ dyn[t].pc = "idle"
  /\ dyn' = [dyn EXCEPT ![t].pc = IF ~enableDynamic THEN "returned"
                                  ELSE IF browser.shared # 0 THEN "newpage"
                                  ELSE "launching",
                         ![t].inst = IF enableDynamic THEN browser.shared ELSE 0]
  /\ UNCHANGED <<items, snapshots, triggers, events, clock, enableDynamic, mode, w, req, call, ext, browser>>

\* chromium.launch() resolves: sharedBrowser = <the new instance>
DynLaunched(t) ==
  /\ dyn[t].pc = "launching"
  /\ browser' = [browser EXCEPT !.launched = @ + 1,
                                 !.open = @ \cup {browser.launched + 1},
                                 !.shared = browser.launched + 1]
  /\ dyn' = [dyn EXCEPT ![t].pc = "newpage", ![t].inst = browser.launched + 1]
  /\ UNCHANGED <<items, snapshots, triggers, events, clock, enableDynamic, mode, w, req, call, ext>>

\* browser.newPage(); it rejects on an instance that is closed
DynNewPage(t) ==
  /\ dyn[t].pc = "newpage"
  /\ IF dyn[t].inst \in browser.open
     THEN /\ browser' = newPage(browser)
          /\ dyn' = [dyn EXCEPT ![t].pc = "visit", ![t].page = TRUE]
     ELSE /\ dyn' = [dyn EXCEPT ![t].pc = "threw", ![t].threw = TRUE]
          /\ UNCHANGED browser
  /\ UNCHANGED <<items, snapshots, triggers, events, clock, enableDynamic, mode, w, req, call, ext>>

\* the try block: goto, the literal selector, the fingerprint fallback
DynVisit(t, gotoOk, literal, fpMatches) ==
  /\ dyn[t].pc = "visit"
  /\ LET res == tryDynamicScrape(items[t], TRUE, gotoOk, literal, fpMatches)
     IN  dyn' = [dyn EXCEPT ![t].pc = "closing", ![t].text = res.text, ![t].threw = res.threw]
  /\ UNCHANGED <<items, snapshots, triggers, events, clock, enableDynamic, mode, w, req, call, ext, browser>>

\* mutant: the page is closed only when the try block did not throw
DynClosePageOnSuccess(t) ==
  /\ dyn[t].pc = "closing"
  /\ browser' = IF dyn[t].threw THEN browser ELSE closePage(browser)
  /\ dyn' = [dyn EXCEPT ![t].pc = IF dyn[t].threw THEN "threw" ELSE "returned",
                         ![t].page = dyn[t].threw]
  /\ UNCHANGED <<items, snapshots, triggers, events, clock, enableDynamic, mode, w, req, call, ext>>

\* finally: page.close(), then the return or the rethrow
DynClosePage(t) ==
  /\ dyn[t].pc = "closing"
  /\ browser' = closePage(browser)
  /\ dyn' = [dyn EXCEPT ![t].pc = IF dyn[t].threw THEN "threw" ELSE "returned",
                         ![t].page = FALSE]
  /\ UNCHANGED <<items, snapshots, triggers, events, clock, enableDynamic, mode, w, req, call, ext>>

\* every invocation has settled: the finally of the run calls closeBrowser()
DynCloseBrowser ==
  /\ \A t \in DOMAIN dyn : dyn[t].pc \in {"returned", "threw"}
  /\ browser' = closeBrowser(browser)
  /\ dyn' = [t \in DOMAIN dyn |-> [dyn[t] EXCEPT !.pc = "ended"]]
  /\ UNCHANGED <<items, snapshots, triggers, events, clock, enableDynamic, mode, w, req, call, ext>>

(* ---------------------- POST /tracked-items/:id/snapshots ------------- *)

Respond(r, status) == [req[r] EXCEPT !.pc = "done", !.status = status]

\* validation, findUnique, parseNumericFromText, new Date()
SnapshotBegin(r, id, valueRaw) ==
  /\ req[r].pc = "idle"
  /\ MayStart
  /\ IF valueRaw = NullText
     THEN /\ req' = [req EXCEPT ![r] = [Respond(r, 400) EXCEPT !.op = "snapshots", !.id = id]]
          /\ UNCHANGED clock
     ELSE IF id \notin DOMAIN items
     THEN /\ req' = [req EXCEPT ![r] = [Respond(r, 404) EXCEPT !.op = "snapshots", !.id = id]]
          /\ UNCHANGED clock
     ELSE IF valueRaw = <<>>
     THEN /\ req' = [req EXCEPT ![r] = [Respond(r, 400) EXCEPT !.op = "snapshots", !.id = id]]
          /\ UNCHANGED clock
     ELSE /\ clock < MaxClock
          /\ req' = [req EXCEPT ![r] =
                       [RequestIdle EXCEPT !.op = "snapshots", !.pc = "create_snapshot",
                                           !.id = id, !.item = items[id],
                                           !.valueRaw = valueRaw,
                                           !.numeric = parseNumericFromText(valueRaw),
                                           !.now = clock]]
          /\ clock' = clock + 1
  /\ UNCHANGED <<items, snapshots, triggers, events, enableDynamic, mode, w, call, ext, browser, dyn>>

\* prisma.snapshot.create
SnapshotCreate(r) ==
  /\ req[r].op = "snapshots"
  /\ req[r].pc = "create_snapshot"
  /\ Len(snapshots) < MaxSnapshots
  /\ snapshots' = Append(snapshots, SnapshotRow(req[r].id, req[r].valueRaw, req[r].numeric, "ok"))
  /\ req' = [req EXCEPT ![r].snapId = Len(snapshots) + 1, ![r].pc = "update_item"]
  /\ UNCHANGED <<items, triggers, events, clock, enableDynamic, mode, w, call, ext, browser, dyn>>

\* the health fields an ok Snapshot of the live route writes
healthOnSuccess(row, now) ==
  [row EXCEPT !.lastSuccessAt = now, !.consecutiveFailures = 0]

\* prisma.trackedItem.update({ lastSuccessAt: now, consecutiveFailures: 0 })
SnapshotUpdateItem(r) ==
  /\ req[r].op = "snapshots"
  /\ req[r].pc = "update_item"
  /\ items' = [items EXCEPT ![req[r].id] = healthOnSuccess(@, req[r].now)]
  /\ req' = [req EXCEPT ![r] = IF IsNumber(req[r].numeric)
                               THEN [req[r] EXCEPT !.pc = "load"]
                               ELSE Respond(r, 201)]
  /\ UNCHANGED <<snapshots, triggers, events, clock, enableDynamic, mode, w, call, ext, browser, dyn>>

\* prisma.trigger.findMany, then the loop up to the first Trigger that fires
SnapshotLoadTriggers(r) ==
  /\ req[r].op = "snapshots"
  /\ req[r].pc = "load"
  /\ LET trigs == ActiveTriggersOf(req[r].id)
         ti    == NextMatch(RouteFlags(trigs, req[r].numeric), 1)
     IN  req' = [req EXCEPT ![r] = IF ti = 0 THEN [Respond(r, 201) EXCEPT !.trigs = trigs]
                                   ELSE [req[r] EXCEPT !.trigs = trigs, !.ti = ti, !.pc = "create"]]
  /\ UNCHANGED <<items, snapshots, triggers, events, clock, enableDynamic, mode, w, call, ext, browser, dyn>>

\* prisma.triggerEvent.create; a failure is answered 500
SnapshotCreateEvent(r) ==
  /\ req[r].op = "snapshots"
  /\ req[r].pc = "create"
  /\ IF triggers[req[r].trigs[req[r].ti].id].exists
     THEN /\ events' = Append(events, [triggerId |-> req[r].trigs[req[r].ti].id,
                                       snapshotId |-> req[r].snapId])
          /\ req' = [req EXCEPT ![r].pc = "stamp"]
     ELSE /\ req' = [req EXCEPT ![r] = Respond(r, 500)]
          /\ UNCHANGED events
  /\ UNCHANGED <<items, snapshots, triggers, clock, enableDynamic, mode, w, call, ext, browser, dyn>>

\* prisma.trigger.update({ lastFiredAt: new Date() }), then the loop goes on
SnapshotStampTrigger(r) ==
  /\ req[r].op = "snapshots"
  /\ req[r].pc = "stamp"
  /\ IF triggers[req[r].trigs[req[r].ti].id].exists
     THEN /\ clock < MaxClock
          /\ triggers' = [triggers EXCEPT ![req[r].trigs[req[r].ti].id].lastFiredAt = clock]
          /\ clock' = clock + 1
          /\ LET ti == NextMatch(RouteFlags(req[r].trigs, req[r].numeric), req[r].ti + 1)
             IN  req' = [req EXCEPT ![r] = IF ti = 0 THEN Respond(r, 201)
                                           ELSE [req[r] EXCEPT !.ti = ti, !.pc = "create"]]
     ELSE /\ req' = [req EXCEPT ![r] = Respond(r, 500)]
          /\ UNCHANGED <<triggers, clock>>
  /\ UNCHANGED <<items, snapshots, events, enableDynamic, mode, w, call, ext, browser, dyn>>

\* the response has been sent; the handler's locals are gone
RequestEnd(r) ==
  /\ req[r].pc = "done"
  /\ req' = [req EXCEPT ![r] = RequestIdle]
  /\ UNCHANGED <<items, snapshots, triggers, events, clock, enableDynamic, mode, w, call, ext, browser, dyn>>

(* -------------------- POST /tracked-items/:id/repair-selector --------- *)

\* validation and findUnique with the latest ok Snapshot
RepairBegin(r, id) ==
  /\ req[r].pc = "idle"
  /\ MayStart
  /\ req' = [req EXCEPT ![r] =
       IF id = 0 THEN [Respond(r, 400) EXCEPT !.op = "repair", !.id = id]
       ELSE IF id \notin DOMAIN items THEN [Respond(r, 404) EXCEPT !.op = "repair", !.id = id]
       ELSE [RequestIdle EXCEPT
               !.op = "repair", !.pc = "ai", !.id = id, !.item = items[id],
               !.sampleText = IF LastOkSnapshot(id) # 0
                              THEN snapshots[LastOkSnapshot(id)].valueRaw
                              ELSE items[id].sampleText]]
  /\ UNCHANGED <<items, snapshots, triggers, events, clock, enableDynamic, mode, w, call, ext, browser, dyn>>

\* mutant: without a proposal the handler still stamps the item and answers 200
RepairAIStamping(r, proposal) ==
  /\ req[r].op = "repair"
  /\ req[r].pc = "ai"
  /\ clock < MaxClock
  /\ IF proposal = NoRow
     THEN /\ req' = [req EXCEPT ![r] = Respond(r, 200)]
          /\ items' = [items EXCEPT ![req[r].id].lastSuccessAt = clock]
     ELSE /\ req' = [req EXCEPT ![r].proposal = proposal, ![r].now = clock,
                                ![r].pc = "update_item"]
          /\ UNCHANGED items
  /\ clock' = clock + 1
  /\ UNCHANGED <<snapshots, triggers, events, enableDynamic, mode, w, call, ext, browser, dyn>>

\* repairSelectorWithAI resolves; without a proposal the answer is 422
RepairAI(r, proposal) ==
  /\ req[r].op = "repair"
  /\ req[r].pc = "ai"
  /\ IF proposal = NoRow
     THEN /\ req' = [req EXCEPT ![r] = Respond(r, 422)]
          /\ UNCHANGED clock
     ELSE /\ clock < MaxClock
          /\ req' = [req EXCEPT ![r].proposal = proposal, ![r].now = clock,
                                ![r].pc = "update_item"]
          /\ clock' = clock + 1
  /\ UNCHANGED <<items, snapshots, triggers, events, enableDynamic, mode, w, call, ext, browser, dyn>>

\* mutant: a repair that keeps the failure count
repairedItemKeepingCount(row, item, proposal, now) ==
  [row EXCEPT !.selector = proposal.selector,
              !.sampleText = proposal.sampleText,
              !.type = IF proposal.type = Null THEN item.type ELSE proposal.type,
              !.lastSuccessAt = now]

\* the row prisma.trackedItem.update writes on a successful repair; `item` is
\* the row the handler read at the start
repairedItem(row, item, proposal, now) ==
  [row EXCEPT !.selector = proposal.selector,
              !.sampleText = proposal.sampleText,
              !.type = IF proposal.type = Null THEN item.type ELSE proposal.type,
              !.consecutiveFailures = 0,
              !.lastSuccessAt = now]

\* prisma.trackedItem.update
RepairUpdateItem(r) ==
  /\ req[r].op = "repair"
  /\ req[r].pc = "update_item"
  /\ items' = [items EXCEPT ![req[r].id] =
                 repairedItem(@, req[r].item, req[r].proposal, req[r].now)]
  /\ req' = [req EXCEPT ![r].pc = "create_snapshot"]
  /\ UNCHANGED <<snapshots, triggers, events, clock, enableDynamic, mode, w, call, ext, browser, dyn>>

\* the immediate Snapshot of a repair
repairSnapshot(itemId, proposal) ==
  SnapshotRow(itemId, proposal.sampleText,
              IF IsNumber(proposal.valueNumeric) THEN proposal.valueNumeric
              ELSE parseNumericFromText(proposal.sampleText),
              "ok")

\* prisma.snapshot.create and the "repaired" response
RepairCreateSnapshot(r) ==
  /\ req[r].op = "repair"
  /\ req[r].pc = "create_snapshot"
  /\ Len(snapshots) < MaxSnapshots
  /\ snapshots' = Append(snapshots, repairSnapshot(req[r].id, req[r].proposal))
  /\ req' = [req EXCEPT ![r] = [Respond(r, 200) EXCEPT !.snapId = Len(snapshots) + 1]]
  /\ UNCHANGED <<items, triggers, events, clock, enableDynamic, mode, w, call, ext, browser, dyn>>

(* ------------------------ POST /tracked-items/:id/failure ------------- *)

\* validation and findUnique
FailureBegin(r, id) ==
  /\ req[r].pc = "idle"
  /\ MayStart
  /\ req' = [req EXCEPT ![r] =
       IF id = 0 THEN [Respond(r, 400) EXCEPT !.op = "failure", !.id = id]
       ELSE IF id \notin DOMAIN items THEN [Respond(r, 404) EXCEPT !.op = "failure", !.id = id]
       ELSE [RequestIdle EXCEPT !.op = "failure", !.pc = "update_item", !.id = id,
                                !.item = items[id]]]
  /\ UNCHANGED <<items, snapshots, triggers, events, clock, enableDynamic, mode, w, call, ext, browser, dyn>>

\* the row the failure report writes
failedItem(row, now) ==
  [row EXCEPT !.consecutiveFailures = row.consecutiveFailures + 1, !.lastFailureAt = now]

\* mutant: the response asks for a repair of an inactive item too
FailureUpdateItemAnyItem(r) ==
  /\ req[r].op = "failure"
  /\ req[r].pc = "update_item"
  /\ items[req[r].id].consecutiveFailures < MaxFailures
  /\ clock < MaxClock
  /\ LET updated == failedItem(items[req[r].id], clock)
     IN  /\ items' = [items EXCEPT ![req[r].id] = updated]
         /\ req' = [req EXCEPT ![r] =
                      [Respond(r, 200) EXCEPT
                         !.now = clock,
                         !.count = updated.consecutiveFailures,
                         !.shouldRepair = (updated.consecutiveFailures >= FAILURE_THRESHOLD)]]
  /\ clock' = clock + 1
  /\ UNCHANGED <<snapshots, triggers, events, enableDynamic, mode, w, call, ext, browser, dyn>>

\* mutant: the count is computed from the row the handler read at the start
FailureUpdateItemFromRead(r) ==
  /\ req[r].op = "failure"
  /\ req[r].pc = "update_item"
  /\ items[req[r].id].consecutiveFailures < MaxFailures
  /\ clock < MaxClock
  /\ LET updated == [items[req[r].id] EXCEPT
                       !.consecutiveFailures = req[r].item.consecutiveFailures + 1,
                       !.lastFailureAt = clock]
     IN  /\ items' = [items EXCEPT ![req[r].id] = updated]
         /\ req' = [req EXCEPT ![r] =
                      [Respond(r, 200) EXCEPT
                         !.now = clock,
                         !.count = updated.consecutiveFailures,
                         !.shouldRepair = (updated.consecutiveFailures >= FAILURE_THRESHOLD
                                           /\ updated.isActive)]]
  /\ clock' = clock + 1
  /\ UNCHANGED <<snapshots, triggers, events, enableDynamic, mode, w, call, ext, browser, dyn>>

\* prisma.trackedItem.update({ consecutiveFailures: { increment: 1 } }) and the response
FailureUpdateItem(r) ==
  /\ req[r].op = "failure"
  /\ req[r].pc = "update_item"
  /\ items[req[r].id].consecutiveFailures < MaxFailures
  /\ clock < MaxClock
  /\ LET updated == failedItem(items[req[r].id], clock)
     IN  /\ items' = [items EXCEPT ![req[r].id] = updated]
         /\ req' = [req EXCEPT ![r] =
                      [Respond(r, 200) EXCEPT
                         !.now = clock,
                         !.count = updated.consecutiveFailures,
                         !.shouldRepair = (updated.consecutiveFailures >= FAILURE_THRESHOLD
                                           /\ updated.isActive)]]
  /\ clock' = clock + 1
  /\ UNCHANGED <<snapshots, triggers, events, enableDynamic, mode, w, call, ext, browser, dyn>>

(* --------------------------- GET /tracked-items/:id ------------------- *)

\* findUnique with the item's Snapshots included, in one read; the response
\* carries the row and (in snapId) its most recent ok Snapshot
GetItem(r, id) ==
  /\ req[r].pc = "idle"
  /\ MayStart
  /\ req' = [req EXCEPT ![r] =
       IF id \notin DOMAIN items THEN [Respond(r, 404) EXCEPT !.op = "get", !.id = id]
       ELSE [Respond(r, 200) EXCEPT !.op = "get", !.id = id, !.item = items[id],
                                    !.snapId = LastOkSnapshot(id)]]
  /\ UNCHANGED <<items, snapshots, triggers, events, clock, enableDynamic, mode, w, call, ext, browser, dyn>>

(* ------------------- the extension: refreshTrackedItems --------------- *)

BatchSize == 5

\* values a scrape in the extension can give: nothing, or a text
ScrapeValues == {NullText, <<>>, T90}

\* GET /tracked-items: the ids, newest first
RECURSIVE ListItems(_)
ListItems(S) ==
  IF S = {} THEN <<>>
  ELSE LET m == CHOOSE x \in S : \A y \in S : y <= x
       IN  <<m>> \o ListItems(S \ {m})

\* items.slice(0, 5)
FirstItems(list) == SubSeq(list, 1, IF Len(list) < BatchSize THEN Len(list) ELSE BatchSize)

\* the list is fetched and the batch is cut
ExtRefreshStart ==
  /\ ext.pc = "idle"
  /\ MayStart
  /\ ext' = [ext EXCEPT !.pc = "loop", !.queue = FirstItems(ListItems(DOMAIN items))]
  /\ UNCHANGED <<items, snapshots, triggers, events, clock, enableDynamic, mode, w, req, call, browser, dyn>>

\* scrapeItemOffscreen, then scrapeItemInBrowser when it gave nothing
ExtScrape(offscreen, inBrowser) ==
  /\ ext.pc = "loop"
  /\ ext.queue # <<>>
  /\ LET valueRaw == IF Falsy(offscreen) THEN inBrowser ELSE offscreen
     IN  ext' = [ext EXCEPT !.id = Head(ext.queue), !.queue = Tail(ext.queue),
                            !.valueRaw = valueRaw,
                            !.pc = IF Falsy(valueRaw) THEN "send_failure" ELSE "send_snapshot"]
  /\ UNCHANGED <<items, snapshots, triggers, events, clock, enableDynamic, mode, w, req, call, browser, dyn>>

\* the batch is done
ExtRefreshEnd ==
  /\ ext.pc = "loop"
  /\ ext.queue = <<>>
  /\ ext' = [ext EXCEPT !.pc = "idle", !.id = 0, !.valueRaw = NullText]
  /\ UNCHANGED <<items, snapshots, triggers, events, clock, enableDynamic, mode, w, req, call, browser, dyn>>

\* fetch(.../failure, POST) reaches the server
ExtSendFailure ==
  /\ ext.pc = "send_failure"
  /\ FailureBegin(1, ext.id)

\* mutant: every answered failure report is followed by a repair request
ExtFailureResponseEager ==
  /\ ext.pc = "send_failure"
  /\ req[1].op = "failure" /\ req[1].pc = "done"
  /\ LET ok == req[1].status = 200
     IN  ext' = [ext EXCEPT !.reports[ext.id] = IF ok THEN @ + 1 ELSE @,
                            !.pc = IF ok THEN "send_repair" ELSE "loop"]
  /\ req' = [req EXCEPT ![1] = RequestIdle]
  /\ UNCHANGED <<items, snapshots, triggers, events, clock, enableDynamic, mode, w, call, browser, dyn>>

\* the failure response: failRes.ok, failData.shouldRepair
ExtFailureResponse ==
  /\ ext.pc = "send_failure"
  /\ req[1].op = "failure" /\ req[1].pc = "done"
  /\ LET ok == req[1].status = 200
     IN  ext' = [ext EXCEPT !.reports[ext.id] = IF ok THEN @ + 1 ELSE @,
                            !.pc = IF ok /\ req[1].shouldRepair THEN "send_repair" ELSE "loop"]
  /\ req' = [req EXCEPT ![1] = RequestIdle]
  /\ UNCHANGED <<items, snapshots, triggers, events, clock, enableDynamic, mode, w, call, browser, dyn>>

\* fetch(.../repair-selector, POST) reaches the server
ExtSendRepair ==
  /\ ext.pc = "send_repair"
  /\ RepairBegin(1, ext.id)

\* the repair response; whatever it is the loop goes on
ExtRepairResponse ==
  /\ ext.pc = "send_repair"
  /\ req[1].op = "repair" /\ req[1].pc = "done"
  /\ ext' = [ext EXCEPT !.reports[ext.id] = IF req[1].status = 200 THEN 0 ELSE @,
                         !.pc = "loop"]
  /\ req' = [req EXCEPT ![1] = RequestIdle]
  /\ UNCHANGED <<items, snapshots, triggers, events, clock, enableDynamic, mode, w, call, browser, dyn>>

\* fetch(.../snapshots, POST { valueRaw }) reaches the server
ExtSendSnapshot ==
  /\ ext.pc = "send_snapshot"
  /\ SnapshotBegin(1, ext.id, ext.valueRaw)

\* the snapshot response
ExtSnapshotResponse ==
  /\ ext.pc = "send_snapshot"
  /\ req[1].op = "snapshots" /\ req[1].pc = "done"
  /\ ext' = [ext EXCEPT !.reports[ext.id] = IF req[1].status = 201 THEN 0 ELSE @,
                         !.pc = "loop"]
  /\ req' = [req EXCEPT ![1] = RequestIdle]
  /\ UNCHANGED <<items, snapshots, triggers, events, clock, enableDynamic, mode, w, call, browser, dyn>>

(* ------------------------------ /triggers ----------------------------- *)

VALID_COMPARISONS == {"lt", "lte", "gt", "gte", "eq", "neq"}

\* the `data` of PATCH /triggers/:id is empty
NoFields(body) ==
  body.active = "absent" /\ ~IsNumber(body.threshold) /\ body.comparison = Null

\* mutant: a PATCH re-arms the Trigger
patchedTriggerRearmed(row, body) ==
  [row EXCEPT !.active = IF body.active = "absent" THEN row.active ELSE body.active = "true",
              !.threshold = IF IsNumber(body.threshold) THEN body.threshold ELSE row.threshold,
              !.comparison = IF body.comparison = Null THEN row.comparison ELSE body.comparison,
              !.lastFiredAt = NoTime]

\* the row PATCH /triggers/:id writes
patchedTrigger(row, body) ==
  [row EXCEPT !.active = IF body.active = "absent" THEN row.active ELSE body.active = "true",
              !.threshold = IF IsNumber(body.threshold) THEN body.threshold ELSE row.threshold,
              !.comparison = IF body.comparison = Null THEN row.comparison ELSE body.comparison]

\* PATCH /triggers/:id: 400 for a bad comparison or an empty body, 500 for a
\* missing Trigger, otherwise one update
PatchTrigger(t, body) ==
  /\ MayStart
  /\ body.comparison = Null \/ body.comparison \in VALID_COMPARISONS
  /\ ~NoFields(body)
  /\ triggers[t].exists
  /\ triggers' = [triggers EXCEPT ![t] = patchedTrigger(@, body)]
  /\ UNCHANGED <<items, snapshots, events, clock, enableDynamic, mode, w, req, call, ext, browser, dyn>>

\* DELETE /triggers/:id: the row and, by cascade, its TriggerEvents
DeleteTrigger(t) ==
  /\ MayStart
  /\ triggers[t].exists
  /\ triggers' = [triggers EXCEPT ![t] = DeletedTrigger]
  /\ events' = SelectSeq(events, LAMBDA e : e.triggerId # t)
  /\ UNCHANGED <<items, snapshots, clock, enableDynamic, mode, w, req, call, ext, browser, dyn>>

(* --------------------------- specifications --------------------------- *)

WorkerCore ==
  \/ RunOnceStart
  \/ RunOnceEnd
  \/ WorkerExit
  \/ ProcessStart
  \/ \E outcomes \in [1..2 -> FetchOutcomes], elems \in ElemLists : StaticScrape(outcomes, elems)
  \/ \E gotoOk \in BOOLEAN, literal \in ElemLists, fpMatches \in ElemLists :
       DynamicScrape(gotoOk, literal, fpMatches)
  \/ StoreSnapshot
  \/ LoadTriggers
  \/ CatchError
  \/ ProcessReturn

WorkerFire ==
  \/ CreateEvent
  \/ StampTrigger

SnapshotRoute ==
  \/ \E r \in DOMAIN req, id \in RequestIds(items), valueRaw \in BodyValues :
       SnapshotBegin(r, id, valueRaw)
  \/ \E r \in DOMAIN req : SnapshotCreate(r)
  \/ \E r \in DOMAIN req : SnapshotUpdateItem(r)
  \/ \E r \in DOMAIN req : SnapshotLoadTriggers(r)
  \/ \E r \in DOMAIN req : RequestEnd(r)

SnapshotFire ==
  \/ \E r \in DOMAIN req : SnapshotCreateEvent(r)
  \/ \E r \in DOMAIN req : SnapshotStampTrigger(r)

RepairRoute ==
  \/ \E r \in DOMAIN req, id \in RequestIds(items) : RepairBegin(r, id)
  \/ \E r \in DOMAIN req, proposal \in Proposals \cup {NoRow} : RepairAI(r, proposal)
  \/ \E r \in DOMAIN req : RepairUpdateItem(r)
  \/ \E r \in DOMAIN req : RepairCreateSnapshot(r)

FailureRoute ==
  \/ \E r \in DOMAIN req, id \in RequestIds(items) : FailureBegin(r, id)
  \/ \E r \in DOMAIN req : FailureUpdateItem(r)

TriggerRoutes ==
  \/ \E t \in DOMAIN triggers, body \in PatchBodies : PatchTrigger(t, body)
  \/ \E t \in DOMAIN triggers : DeleteTrigger(t)

NoCall == [fn |-> "none"]

\* refreshTrackedItems is not running; reports counts, per item, the failure
\* reports the extension got answered since the last success it saw
ExtIdle ==
  [pc |-> "idle", queue |-> <<>>, id |-> 0, valueRaw |-> NullText, reports |-> <<>>]

\* an invocation of tryDynamicScrape that has not been entered
DynIdle == [pc |-> "idle", inst |-> 0, page |-> FALSE, text |-> NullText, threw |-> FALSE]

\* no side-by-side invocations
NoDyn == <<>>

TypedInit ==
  /\ snapshots = <<>>
  /\ events = <<>>
  /\ clock = MaxClock - MaxTicks
  /\ w = WorkerIdle
  /\ req = [r \in {1} |-> RequestIdle]
  /\ call = NoCall
  /\ ext = ExtIdle
  /\ browser = NoBrowser
  /\ dyn = NoDyn

\* the whole system: two items, two Triggers, everything may overlap
Init ==
  /\ TypedInit
  /\ mode = "par"
  /\ enableDynamic \in BOOLEAN
  /\ items = (1 :> ItemRow(Fingerprint1, TRUE) @@ 2 :> ItemRow(NoRow, FALSE))
  /\ triggers = (1 :> TriggerRow(1, "lt", Num(100)) @@ 2 :> TriggerRow(1, "lt", Num(100)))

Next ==
  \/ WorkerCore \/ WorkerFire
  \/ SnapshotRoute \/ SnapshotFire
  \/ RepairRoute \/ FailureRoute
  \/ TriggerRoutes

Spec == Init /\ [][Next]_vars

\* Trigger evaluation: one item with two Triggers, the worker, the live
\* snapshot route and the trigger routes, where evaluations, PATCH and
\* DELETE never overlap
InitTriggers ==
  /\ TypedInit
  /\ mode = "seq"
  /\ enableDynamic = TRUE
  /\ items = (1 :> ItemRow(Fingerprint1, TRUE))
  /\ triggers = (1 :> TriggerRow(1, "lt", Num(100)) @@ 2 :> TriggerRow(1, "lt", Num(100)))

NextTriggers ==
  \/ WorkerCore \/ WorkerFire
  \/ SnapshotRoute \/ SnapshotFire
  \/ TriggerRoutes

SpecTriggers == InitTriggers /\ [][NextTriggers]_vars

\* The same with one Trigger, where evaluations, PATCH and DELETE overlap freely
InitRace ==
  /\ TypedInit
  /\ mode = "par"
  /\ enableDynamic = TRUE
  /\ items = (1 :> ItemRow(Fingerprint1, TRUE))
  /\ triggers = (1 :> TriggerRow(1, "lt", Num(100)))

SpecRace == InitRace /\ [][NextTriggers]_vars

\* Health bookkeeping: two items without Triggers, the worker and the three
\* tracked-item routes, one operation at a time
InitHealth ==
  /\ TypedInit
  /\ mode = "seq"
  /\ enableDynamic \in BOOLEAN
  /\ items = (1 :> ItemRow(Fingerprint1, TRUE) @@ 2 :> ItemRow(NoRow, FALSE))
  /\ triggers = <<>>

NextHealth ==
  \/ WorkerCore
  \/ SnapshotRoute
  \/ RepairRoute \/ FailureRoute

SpecHealth == InitHealth /\ [][NextHealth]_vars

\* tryFingerprintFallback as a pure function: every fingerprint shape against
\* every list of at most two matched elements
FingerprintInputs ==
  { NoRow,
    [hasPath |-> FALSE, path |-> <<>>],
    [hasPath |-> TRUE, path |-> <<>>],
    [hasPath |-> TRUE, path |-> << [tag |-> "", classes |-> <<>>, nthOfType |-> 0] >>],
    Fingerprint1 }

MatchTexts == { <<>>, <<" ">>, <<" ", "$", "9", "0", " ">>, <<"n", "/", "a">> }

MatchLists ==
  {<<>>} \cup {<<a>> : a \in MatchTexts} \cup {<<a, b>> : a \in MatchTexts, b \in MatchTexts}

InitFingerprint ==
  /\ snapshots = <<>>
  /\ events = <<>>
  /\ clock = 1
  /\ w = WorkerIdle
  /\ req = [r \in {1} |-> RequestIdle]
  /\ mode = "seq"
  /\ enableDynamic = TRUE
  /\ items = (1 :> ItemRow(Fingerprint1, TRUE))
  /\ triggers = <<>>
  /\ ext = ExtIdle
  /\ browser = NoBrowser
  /\ dyn = NoDyn
  /\ \E fingerprint \in FingerprintInputs, matches \in MatchLists :
       call = [fn |-> "tryFingerprintFallback", fingerprint |-> fingerprint,
               matches |-> matches, done |-> FALSE, result |-> NullText]

CallFingerprintFallback ==
  /\ call.fn = "tryFingerprintFallback"
  /\ ~call.done
  /\ call' = [call EXCEPT !.done = TRUE,
                          !.result = tryFingerprintFallback(call.fingerprint, call.matches)]
  /\ UNCHANGED system

NextFingerprint == CallFingerprintFallback

SpecFingerprint == InitFingerprint /\ [][NextFingerprint]_vars

\* Repair against a concurrent reader: one item, two requests in flight, the
\* repair route and GET /tracked-items/:id overlapping freely
InitRepair ==
  /\ snapshots = <<>>
  /\ events = <<>>
  /\ clock = MaxClock - MaxTicks
  /\ w = WorkerIdle
  /\ req = [r \in {1, 2} |-> RequestIdle]
  /\ call = NoCall
  /\ ext = ExtIdle
  /\ browser = NoBrowser
  /\ dyn = NoDyn
  /\ mode = "par"
  /\ enableDynamic = TRUE
  /\ items = (1 :> ItemRow(Fingerprint1, TRUE))
  /\ triggers = <<>>

NextRepair ==
  \/ RepairRoute
  \/ \E r \in DOMAIN req, id \in RequestIds(items) : GetItem(r, id)
  \/ \E r \in DOMAIN req : RequestEnd(r)

SpecRepair == InitRepair /\ [][NextRepair]_vars

\* Failure reports alone: an active and an inactive item, one request at a
\* time, from the first timestamp on
InitFailure ==
  /\ snapshots = <<>>
  /\ events = <<>>
  /\ clock = 1
  /\ w = WorkerIdle
  /\ req = [r \in {1} |-> RequestIdle]
  /\ call = NoCall
  /\ ext = ExtIdle
  /\ browser = NoBrowser
  /\ dyn = NoDyn
  /\ mode = "seq"
  /\ enableDynamic = TRUE
  /\ items = (1 :> ItemRow(Fingerprint1, TRUE) @@ 2 :> ItemRow(NoRow, FALSE))
  /\ triggers = <<>>

NextFailure ==
  \/ FailureRoute
  \/ \E r \in DOMAIN req : RequestEnd(r)

SpecFailure == InitFailure /\ [][NextFailure]_vars

\* The live refresh path: the extension against the failure, repair and
\* snapshot routes, an active and an inactive item, from the first timestamp on
InitLive ==
  /\ snapshots = <<>>
  /\ events = <<>>
  /\ clock = 1
  /\ w = WorkerIdle
  /\ req = [r \in {1} |-> RequestIdle]
  /\ call = NoCall
  /\ browser = NoBrowser
  /\ dyn = NoDyn
  /\ mode = "seq"
  /\ enableDynamic = TRUE
  /\ items = (1 :> ItemRow(Fingerprint1, TRUE) @@ 2 :> ItemRow(NoRow, FALSE))
  /\ triggers = <<>>
  /\ ext = [ExtIdle EXCEPT !.reports = [i \in {1, 2} |-> 0]]

NextLive ==
  \/ ExtRefreshStart
  \/ \E offscreen \in ScrapeValues, inBrowser \in ScrapeValues : ExtScrape(offscreen, inBrowser)
  \/ ExtRefreshEnd
  \/ ExtSendFailure
  \/ FailureUpdateItem(1)
  \/ ExtFailureResponse
  \/ ExtSendRepair
  \/ \E proposal \in Proposals \cup {NoRow} : RepairAI(1, proposal)
  \/ RepairUpdateItem(1)
  \/ RepairCreateSnapshot(1)
  \/ ExtRepairResponse
  \/ ExtSendSnapshot
  \/ SnapshotCreate(1)
  \/ SnapshotUpdateItem(1)
  \/ SnapshotLoadTriggers(1)
  \/ ExtSnapshotResponse

SpecLive == InitLive /\ [][NextLive]_vars

\* One run of the worker over two items with every way it can end: the list
\* completes, runOnce rejects, the host aborts
InitRun ==
  /\ TypedInit
  /\ mode = "seq"
  /\ enableDynamic \in BOOLEAN
  /\ items = (1 :> ItemRow(Fingerprint1, TRUE) @@ 2 :> ItemRow(NoRow, FALSE))
  /\ triggers = <<>>

NextRun ==
  \/ WorkerCore
  \/ CatchErrorRejects
  \/ RunOnceRejected
  \/ \E killed \in BOOLEAN : HostAbort(killed)

SpecRun == InitRun /\ [][NextRun]_vars

\* tryDynamicScrape for two different items side by side in one process
InitDynamic ==
  /\ snapshots = <<>>
  /\ events = <<>>
  /\ clock = 1
  /\ w = WorkerIdle
  /\ req = [r \in {1} |-> RequestIdle]
  /\ call = NoCall
  /\ ext = ExtIdle
  /\ browser = NoBrowser
  /\ mode = "par"
  /\ enableDynamic \in BOOLEAN
  /\ items = (1 :> ItemRow(Fingerprint1, TRUE) @@ 2 :> ItemRow(NoRow, FALSE))
  /\ triggers = <<>>
  /\ dyn = [t \in {1, 2} |-> DynIdle]

NextDynamic ==
  \/ \E t \in DOMAIN dyn : DynEnter(t)
  \/ \E t \in DOMAIN dyn : DynLaunched(t)
  \/ \E t \in DOMAIN dyn : DynNewPage(t)
  \/ \E t \in DOMAIN dyn, gotoOk \in BOOLEAN, literal \in ElemLists, fpMatches \in ElemLists :
       DynVisit(t, gotoOk, literal, fpMatches)
  \/ \E t \in DOMAIN dyn : DynClosePage(t)
  \/ DynCloseBrowser

SpecDynamic == InitDynamic /\ [][NextDynamic]_vars

\* The worker evaluating two Triggers in a process the host may stop at any await
NextStopped ==
  \/ WorkerCore \/ WorkerFire
  \/ \E killed \in BOOLEAN : HostAbort(killed)

SpecStopped == InitTriggers /\ [][NextStopped]_vars

\* Failure reports, snapshot reports and repairs of one item, two requests in
\* flight at a time, with twice the timestamps of the slices that start late
InitCount ==
  /\ snapshots = <<>>
  /\ events = <<>>
  /\ clock = MaxClock - 2 * MaxTicks
  /\ w = WorkerIdle
  /\ req = [r \in {1, 2} |-> RequestIdle]
  /\ call = NoCall
  /\ ext = ExtIdle
  /\ browser = NoBrowser
  /\ dyn = NoDyn
  /\ mode = "par"
  /\ enableDynamic = TRUE
  /\ items = (1 :> ItemRow(Fingerprint1, TRUE))
  /\ triggers = <<>>

NextCount ==
  \/ \E r \in DOMAIN req, id \in DOMAIN items : FailureBegin(r, id)
  \/ \E r \in DOMAIN req : FailureUpdateItem(r)
  \/ \E r \in DOMAIN req, id \in DOMAIN items : SnapshotBegin(r, id, T90)
  \/ \E r \in DOMAIN req : SnapshotCreate(r)
  \/ \E r \in DOMAIN req : SnapshotUpdateItem(r)
  \/ \E r \in DOMAIN req : SnapshotLoadTriggers(r)
  \/ \E r \in DOMAIN req, id \in DOMAIN items : RepairBegin(r, id)
  \/ \E r \in DOMAIN req, proposal \in Proposals : RepairAI(r, proposal)
  \/ \E r \in DOMAIN req : RepairUpdateItem(r)
  \/ \E r \in DOMAIN req : RepairCreateSnapshot(r)
  \/ \E r \in DOMAIN req : RequestEnd(r)

SpecCount == InitCount /\ [][NextCount]_vars

\* One run of the worker to its end, every enabled step eventually taken
NextTerminate ==
  \/ RunOnceStart
  \/ RunOnceEnd
  \/ ProcessStart
  \/ \E outcomes \in [1..2 -> FetchOutcomes], elems \in ElemLists : StaticScrape(outcomes, elems)
  \/ FetchNeverSettles
  \/ \E gotoOk \in BOOLEAN, literal \in ElemLists, fpMatches \in ElemLists :
       DynamicScrape(gotoOk, literal, fpMatches)
  \/ StoreSnapshot
  \/ LoadTriggers
  \/ CatchError
  \/ ProcessReturn

\* the steps of the worker other than StoreSnapshot
WorkerSteps ==
  \/ RunOnceStart
  \/ RunOnceEnd
  \/ ProcessStart
  \/ \E outcomes \in [1..2 -> FetchOutcomes], elems \in ElemLists : StaticScrape(outcomes, elems)
  \/ \E gotoOk \in BOOLEAN, literal \in ElemLists, fpMatches \in ElemLists :
       DynamicScrape(gotoOk, literal, fpMatches)
  \/ LoadTriggers
  \/ CatchError
  \/ ProcessReturn

\* the guard of StoreSnapshot
StoreSnapshotEnabled == w.pc = "store" /\ Len(snapshots) < MaxSnapshots

\* weak fairness of StoreSnapshot, with its enabling condition written out
FairStoreSnapshot == <>[]StoreSnapshotEnabled => []<><<StoreSnapshot>>_vars

\* the event loop runs every continuation that is ready: weak fairness of the
\* worker's steps; a pending fetch is no step
SpecTerminate ==
  InitRun /\ [][NextTerminate]_vars /\ WF_vars(WorkerSteps) /\ FairStoreSnapshot

\* The pure functions on their own: one call with its arguments drawn from a
\* bounded set, then its result
ParseTexts ==
  UNION {[1..n -> {"1", "0", ",", ".", "-", " ", "a"}] : n \in 0..MaxTextLen}
    \cup { <<"$", "1", ",", "2", "3", "4", ".", "5", "6">>,
           <<"Q", "t", "y", ":", " ", "3">>,
           <<"-", "4", "2">> }

\* Node Descriptors: tag present or not, classes with and without an empty
\* entry, nthOfType null (0) or set
NodeInputs ==
  [tag : {"", "div", "span"},
   classes : {<<>>, <<"price">>, <<"price", "">>, <<"card", "price">>},
   nthOfType : {0, 1, 2}]

\* snapshot values and thresholds: negative, zero, integers and fractions
\* on either side of each other
NumberInputs ==
  {Num(0 - 1), Num(0), Num(90), Num(100), [n |-> 9999, d |-> 2], [n |-> 5, d |-> 1]}

InitPure ==
  /\ snapshots = <<>>
  /\ events = <<>>
  /\ clock = 1
  /\ w = WorkerIdle
  /\ req = [r \in {1} |-> RequestIdle]
  /\ mode = "seq"
  /\ enableDynamic = TRUE
  /\ items = (1 :> ItemRow(Fingerprint1, TRUE))
  /\ triggers = <<>>
  /\ ext = ExtIdle
  /\ browser = NoBrowser
  /\ dyn = NoDyn
  /\ \/ \E text \in ParseTexts :
          call = [fn |-> "parseNumericFromText", text |-> text, done |-> FALSE, result |-> NoNumber]
     \/ \E fingerprint \in FingerprintInputs, literal \in MatchLists, fpMatches \in MatchLists :
          call = [fn |-> "tryDynamicScrape", fingerprint |-> fingerprint, literal |-> literal,
                  fpMatches |-> fpMatches, done |-> FALSE, result |-> NoRow]
     \/ \E hasPath \in BOOLEAN, path \in UNION {[1..n -> NodeInputs] : n \in 0..MaxPathLen} :
          call = [fn |-> "cssFromFingerprint", fingerprint |-> [hasPath |-> hasPath, path |-> path],
                  done |-> FALSE, result |-> <<>>]
     \/ \E value \in NumberInputs, threshold \in NumberInputs,
             comparison \in VALID_COMPARISONS \cup {"", "LT", "="} :
          call = [fn |-> "compare", value |-> value, comparison |-> comparison,
                  threshold |-> threshold, done |-> FALSE, route |-> FALSE, worker |-> FALSE]

CallParseNumeric ==
  /\ call.fn = "parseNumericFromText"
  /\ ~call.done
  /\ call' = [call EXCEPT !.done = TRUE, !.result = parseNumericFromText(call.text)]
  /\ UNCHANGED system

\* tryDynamicScrape with dynamic scraping enabled and the page loaded
CallDynamicScrape ==
  /\ call.fn = "tryDynamicScrape"
  /\ ~call.done
  /\ call' = [call EXCEPT !.done = TRUE,
                          !.result = tryDynamicScrape([fingerprint |-> call.fingerprint], TRUE, TRUE,
                                                      call.literal, call.fpMatches)]
  /\ UNCHANGED system

CallCssFromFingerprint ==
  /\ call.fn = "cssFromFingerprint"
  /\ ~call.done
  /\ call' = [call EXCEPT !.done = TRUE, !.result = cssFromFingerprint(call.fingerprint)]
  /\ UNCHANGED system

\* the two evaluation sites on the same value and Trigger row
CallComparisons ==
  /\ call.fn = "compare"
  /\ ~call.done
  /\ call' = [call EXCEPT !.done = TRUE,
                          !.route = meetsComparison(call.value, call.comparison, call.threshold),
                          !.worker = workerMatches(call.value, [comparison |-> call.comparison,
                                                                threshold |-> call.threshold])]
  /\ UNCHANGED system

NextPure ==
  \/ CallParseNumeric
  \/ CallDynamicScrape
  \/ CallCssFromFingerprint
  \/ CallComparisons

SpecPure == InitPure /\ [][NextPure]_vars

(* ------------------------------ claims -------------------------------- *)

\* the TriggerEvent rows of Trigger t
EventsOf(t) == {k \in 1..Len(events) : events[k].triggerId = t}

\* the TriggerEvent rows linking Trigger t to Snapshot s
FiredBy(t, s) == {k \in EventsOf(t) : events[k].snapshotId = s}

\* the standard relation a comparison names, on decimals
Holds(v, comparison, threshold) ==
  LET diff == v.n * Pow10(threshold.d) - threshold.n * Pow10(v.d)
  IN  CASE comparison = "lt"  -> diff < 0
        [] comparison = "lte" -> diff <= 0
        [] comparison = "gt"  -> diff > 0
        [] comparison = "gte" -> diff >= 0
        [] comparison = "eq"  -> diff = 0
        [] comparison = "neq" -> diff # 0
        [] OTHER -> FALSE

\* an invocation of processTrackedItem on an existing item has returned
WorkerReturned == w.pc = "ret" /\ w.item # NoRow

\* the Snapshot rows the returned invocation wrote, oldest first (nothing
\* else writes while w.pc = "ret" is reached in "seq" mode)
WorkerFirstSnapshot == snapshots[Len(snapshots) - w.made + 1]

\* C1: every invocation of processTrackedItem on an existing item has created
\* exactly one Snapshot when it returns.
C1_ExactlyOneSnapshot == WorkerReturned => w.made = 1

\* C2: a Trigger has at most one TriggerEvent; once lastFiredAt is set it
\* stays set, and no later step adds a TriggerEvent for that Trigger.
C2_FiresAtMostOnce ==
  [][\A t \in DOMAIN triggers :
       /\ Cardinality(EventsOf(t))' <= 1
       /\ triggers[t].lastFiredAt # NoTime =>
            /\ triggers'[t].exists => triggers'[t].lastFiredAt # NoTime
            /\ Cardinality(EventsOf(t))' <= Cardinality(EventsOf(t))]_vars

\* a fired, active, still matching Trigger has been through a later
\* evaluation of the worker, which left it with its one TriggerEvent
C2_Witness ==
  \E t \in DOMAIN triggers :
    /\ triggers[t].exists /\ triggers[t].active
    /\ triggers[t].lastFiredAt # NoTime
    /\ w.pc = "ret" /\ w.loaded /\ IsNumber(w.numeric)
    /\ Holds(w.numeric, triggers[t].comparison, triggers[t].threshold)
    /\ Cardinality(EventsOf(t)) = 1
    /\ \E k \in EventsOf(t) : events[k].snapshotId < w.snapId

\* Trigger t was due in the evaluation of value v for item itemId that
\* loaded the rows trigs: active, of that item, unfired when loaded, matching
Due(t, itemId, v, trigs) ==
  /\ triggers[t].exists
  /\ triggers[t].trackedItemId = itemId
  /\ triggers[t].active
  /\ Holds(v, triggers[t].comparison, triggers[t].threshold)
  /\ \A i \in 1..Len(trigs) : trigs[i].id = t => trigs[i].lastFiredAt = NoTime

\* C3: after an evaluation for an ok Snapshot with a number, every Trigger
\* that was due has exactly one TriggerEvent linking it to that Snapshot and
\* has lastFiredAt set, in the worker and in the live snapshot route.
C3_DueTriggersFire ==
  /\ (WorkerReturned /\ w.loaded /\ w.made = 1) =>
       \A t \in DOMAIN triggers :
         Due(t, w.id, w.numeric, w.trigs) =>
           /\ Cardinality(FiredBy(t, w.snapId)) = 1
           /\ triggers[t].lastFiredAt # NoTime
  /\ \A r \in DOMAIN req :
       (req[r].op = "snapshots" /\ req[r].pc = "done" /\ req[r].status = 201
          /\ IsNumber(req[r].numeric)) =>
         \A t \in DOMAIN triggers :
           Due(t, req[r].id, req[r].numeric, req[r].trigs) =>
             /\ Cardinality(FiredBy(t, req[r].snapId)) = 1
             /\ triggers[t].lastFiredAt # NoTime

\* two Triggers of the item fired in the same evaluation of the worker
C3_Witness ==
  /\ WorkerReturned /\ w.loaded
  /\ snapshots[w.snapId].status = "ok"
  /\ \A t \in {1, 2} :
       /\ triggers[t].exists
       /\ Cardinality(FiredBy(t, w.snapId)) = 1
       /\ triggers[t].lastFiredAt # NoTime

\* a request of the given route has been answered with the given status
Answered(r, op, status) ==
  req[r].op = op /\ req[r].pc = "done" /\ req[r].status = status

\* C4: every operation that has written an ok Snapshot for an item (the batch
\* worker, POST /:id/snapshots, a successful repair) leaves the item with
\* consecutiveFailures = 0 and lastSuccessAt stamped.
C4_OkSnapshotResetsHealth ==
  /\ (WorkerReturned /\ w.made = 1 /\ WorkerFirstSnapshot.status = "ok") =>
       /\ items[w.id].consecutiveFailures = 0
       /\ items[w.id].lastSuccessAt # NoTime
  /\ \A r \in DOMAIN req :
       (Answered(r, "snapshots", 201) \/ Answered(r, "repair", 200)) =>
         /\ items[req[r].id].consecutiveFailures = 0
         /\ items[req[r].id].lastSuccessAt = req[r].now
         /\ req[r].now # NoTime

\* the health fields and the selector of an item row
HealthOf(row) ==
  <<row.consecutiveFailures, row.lastFailureAt, row.lastSuccessAt, row.isActive, row.selector>>

\* C5: an invocation of processTrackedItem that wrote a missing or error
\* Snapshot leaves consecutiveFailures, lastFailureAt, lastSuccessAt, isActive
\* and selector of the item as it found them, and consecutiveFailures grows
\* only in the update of POST /:id/failure, by one.
C5_WorkerLeavesHealthAlone ==
  [][/\ (w.pc \in {"store", "catch"} /\ w'.pc = "ret"
           /\ snapshots'[Len(snapshots')].status \in {"missing", "error"}) =>
          /\ Len(snapshots') = Len(snapshots) + 1
          /\ HealthOf(items'[w.id]) = HealthOf(items[w.id])
          /\ HealthOf(items'[w.id]) = HealthOf(w.item)
     /\ \A i \in DOMAIN items :
          items'[i].consecutiveFailures > items[i].consecutiveFailures =>
            \E r \in DOMAIN req :
              /\ req[r].op = "failure" /\ req[r].id = i
              /\ req[r].pc = "update_item" /\ req'[r].pc = "done"
              /\ items'[i].consecutiveFailures = items[i].consecutiveFailures + 1]_vars

\* an item with reported failures went through an invocation that ended in
\* an error Snapshot and still has its count
C5_Witness ==
  /\ WorkerReturned /\ w.made = 1
  /\ WorkerFirstSnapshot.status = "error"
  /\ items[w.id].consecutiveFailures = 1
  /\ w.item.consecutiveFailures = 1

\* both HTTP attempts of the static fetch of the returned invocation failed
FetchFailedTwice == WorkerReturned /\ w.fetchFailures = DefaultRetry + 1

C7_NothingFoundIsMissing ==
  [][/\ (w'.pc = "ret" /\ w'.item # NoRow /\ w'.tier \in {"none", "disabled"}) =>
          /\ w'.made = 1
          /\ w'.dynamicTried
          /\ snapshots'[w'.snapId] = SnapshotRow(w'.id, <<>>, NoNumber, "missing")
          /\ ~w'.loaded
          /\ events' = events
     /\ (w'.dynamicTried /\ ~w.dynamicTried) =>
          (w.pc = "dynamic" /\ Falsy(w.text) /\ w.tier = "none")
     /\ (w.pc = "static" /\ w'.pc # "static") =>
          (w'.pc = "dynamic" <=> Falsy(w'.text))]_vars

\* both extractors ran on a working page and found nothing
C7_Witness ==
  /\ WorkerReturned /\ w.tier = "none" /\ w.dynamicTried
  /\ w.fetchFailures = 0
  /\ enableDynamic
  /\ WorkerFirstSnapshot.status = "missing"

\* C8: tryFingerprintFallback returns the trimmed text of the match when the
\* fingerprint has a non-empty path, exactly one element matches and its
\* trimmed text is non-empty; in every other case it returns null.
C8_SingleMatchOnly ==
  (call.fn = "tryFingerprintFallback" /\ call.done) =>
    LET fp      == call.fingerprint
        usable  == IF fp = NoRow THEN FALSE ELSE fp.hasPath /\ Len(fp.path) > 0
        single  == IF Len(call.matches) = 1 THEN Trim(call.matches[1]) # <<>> ELSE FALSE
    IN  IF usable /\ single
        THEN call.result = Trim(call.matches[1]) /\ call.result # NullText
        ELSE call.result = NullText

\* two candidates with text and a usable fingerprint: the call returned null
C8_Witness ==
  /\ call.fn = "tryFingerprintFallback" /\ call.done
  /\ call.fingerprint = Fingerprint1
  /\ Len(call.matches) = 2
  /\ Trim(call.matches[1]) = T90
  /\ call.result = NullText

\* C9: the step that answers a repair with 200 appends exactly one Snapshot,
\* ok, with the proposal's text and the proposal's number or else the parsed
\* one; the item then has the proposal's selector and sampleText, the
\* proposal's type or else its previous one, consecutiveFailures 0 and
\* lastSuccessAt stamped; no earlier step of the repair writes a Snapshot.
C9_RepairApplied ==
  [][\A r \in DOMAIN req :
       /\ (req[r].op = "repair" /\ req[r].pc # "done" /\ req'[r].pc = "done"
             /\ req'[r].status = 200) =>
            LET p  == req'[r].proposal
                it == items'[req'[r].id]
            IN  /\ p # NoRow
                /\ it.selector = p.selector
                /\ it.sampleText = p.sampleText
                /\ it.type = IF p.type = Null THEN req'[r].item.type ELSE p.type
                /\ it.consecutiveFailures = 0
                /\ it.lastSuccessAt = req'[r].now /\ req'[r].now # NoTime
                /\ snapshots' = Append(snapshots,
                     [trackedItemId |-> req'[r].id, valueRaw |-> p.sampleText,
                      valueNumeric |-> IF IsNumber(p.valueNumeric) THEN p.valueNumeric
                                       ELSE parseNumericFromText(p.sampleText),
                      status |-> "ok"])
       /\ (req[r].op = "repair" /\ req[r].pc \in {"ai", "update_item"}) =>
            snapshots' = snapshots]_vars

\* a repair of an item with a reported failure, from a proposal without type
\* and number, has been answered
C9_Witness ==
  \E r \in DOMAIN req :
    /\ Answered(r, "repair", 200)
    /\ req[r].item.consecutiveFailures = 1
    /\ req[r].proposal.type = Null
    /\ items[req[r].id].type = "price"
    /\ items[req[r].id].consecutiveFailures = 0
    /\ snapshots[req[r].snapId].valueNumeric = Num(80)

\* C10: when no proposal comes back, the repair is answered 422, the step
\* changes no item and no Snapshot, and the item is as the handler read it;
\* 422 is answered in no other case.
C10_NoProposalNoChange ==
  [][\A r \in DOMAIN req :
       (req[r].op = "repair" /\ req[r].pc # "done" /\ req'[r].pc = "done") =>
         /\ (req[r].pc = "ai" /\ req'[r].proposal = NoRow) =>
              /\ req'[r].status = 422
              /\ items' = items
              /\ snapshots' = snapshots
              /\ items'[req[r].id] = req[r].item
         /\ req'[r].status = 422 => (req[r].pc = "ai" /\ req'[r].proposal = NoRow)
         /\ req'[r].status = 200 => req'[r].proposal # NoRow
         /\ req'[r].status = 404 => req'[r].id \notin DOMAIN items]_vars

\* a repair of an item with a reported failure was answered 422
C10_Witness ==
  \E r \in DOMAIN req :
    /\ Answered(r, "repair", 422)
    /\ req[r].proposal = NoRow
    /\ items[req[r].id].consecutiveFailures = 1
    /\ items[req[r].id] = req[r].item

\* the selectors a repair can install
RepairedSelectors == {p.selector : p \in Proposals}

\* C11: a reader never sees an item that carries a repaired selector without
\* the ok Snapshot of that repair (the item's sampleText as valueRaw).
C11_RepairIsAtomic ==
  \A r \in DOMAIN req :
    (Answered(r, "get", 200) /\ req[r].item.selector \in RepairedSelectors) =>
      /\ req[r].snapId # 0
      /\ snapshots[req[r].snapId].valueRaw = req[r].item.sampleText

\* C12: the update of POST /:id/failure adds exactly 1 to consecutiveFailures,
\* stamps lastFailureAt and changes nothing else; the response carries the
\* new count and shouldRepair, true exactly when that count is at least 3 and
\* the item is active; a report for a non-existent item changes nothing.
C12_FailureCountsOne ==
  [][\A r \in DOMAIN req :
       /\ (req[r].op = "failure" /\ req[r].pc = "update_item" /\ req'[r].pc = "done") =>
            LET id == req[r].id
            IN  /\ items'[id].consecutiveFailures = items[id].consecutiveFailures + 1
                /\ items'[id].lastFailureAt = req'[r].now
                /\ req'[r].now # NoTime /\ req'[r].now > items[id].lastFailureAt
                /\ items' = [items EXCEPT
                               ![id].consecutiveFailures = items'[id].consecutiveFailures,
                               ![id].lastFailureAt = items'[id].lastFailureAt]
                /\ req'[r].status = 200
                /\ req'[r].count = items'[id].consecutiveFailures
                /\ req'[r].shouldRepair <=>
                     (items'[id].consecutiveFailures >= 3 /\ items'[id].isActive)
       /\ (req[r].pc = "idle" /\ req'[r].op = "failure"
             /\ req'[r].id \notin DOMAIN items) =>
            /\ req'[r].pc = "done" /\ req'[r].status \in {400, 404}
            /\ items' = items]_vars

\* the third report for the active item asks for a repair, after the inactive
\* item went through three reports
C12_Witness ==
  \E r \in DOMAIN req :
    /\ Answered(r, "failure", 200)
    /\ req[r].id = 1 /\ req[r].count = 3 /\ req[r].shouldRepair
    /\ items[2].consecutiveFailures = 3 /\ ~items[2].isActive

\* C13: in the live refresh path a repair is requested only after at least 3
\* failure reports of an active item with no success in between, it is
\* requested on every such report that brings the count to 3 or more, and the
\* count the server reports is the count since the last success.
C13_RepairAtThreeFailures ==
  [][/\ (ext.pc # "send_repair" /\ ext'.pc = "send_repair") =>
          /\ ext'.reports[ext.id] >= 3
          /\ items[ext.id].isActive
     /\ (req[1].op # "repair" /\ req'[1].op = "repair") =>
          /\ ext.pc = "send_repair"
          /\ req'[1].id = ext.id
          /\ ext.reports[ext.id] >= 3
     /\ (ext.pc = "send_failure" /\ ext'.pc # "send_failure") =>
          /\ ext'.reports[ext.id] = ext.reports[ext.id] + 1
          /\ req[1].count = ext'.reports[ext.id]
          /\ (items[ext.id].isActive /\ ext'.reports[ext.id] >= 3) => ext'.pc = "send_repair"
          /\ ext'.reports[ext.id] < 3 => ext'.pc = "loop"
          /\ ~items[ext.id].isActive => ext'.pc = "loop"]_vars

\* after a successful repair three more failures were reported and the
\* second repair is about to be requested
C13_Witness ==
  /\ ext.pc = "send_repair" /\ ext.id = 1
  /\ ext.reports[1] = 3
  /\ items[1].selector \in RepairedSelectors
  /\ Len(snapshots) = 1

\* the Snapshot rows of an item
SnapshotsOf(i) == {k \in 1..Len(snapshots) : snapshots[k].trackedItemId = i}

\* C14: a failed navigation or a failed fetch of one item leaves the shared
\* browser as it is (neither closed nor replaced), ends in a Snapshot for that
\* item, and leaves the rest of the list to be processed; when the list
\* completes every item has a Snapshot of its own.
C14_FailureStaysWithItem ==
  [][/\ (w.pc = "dynamic" /\ w'.pc = "catch") =>
          /\ browser'.closes = browser.closes
          /\ browser'.shared # 0 /\ browser'.shared \in browser'.open
          /\ browser.shared # 0 => browser' = browser
          /\ w'.queue = w.queue
     /\ (w.pc = "catch" /\ w'.pc = "ret") =>
          /\ snapshots' = Append(snapshots,
               [trackedItemId |-> w.id, valueRaw |-> <<>>,
                valueNumeric |-> NoNumber, status |-> "error"])
          /\ w'.queue = w.queue
          /\ browser' = browser
     /\ (w.pc = "static" /\ w'.pc \notin {"static", "aborted"}) =>
          /\ w'.pc \in {"dynamic", "store"}
          /\ w'.queue = w.queue
          /\ browser' = browser
     /\ (w.pc = "ret" /\ w'.pc = "loop") => w'.queue = w.queue
     /\ (w'.pc = "ret" /\ w'.item # NoRow) => w'.made = 1
     /\ (w.pc = "loop" /\ w'.pc = "finished") =>
          /\ w.queue = <<>>
          /\ \A i \in DOMAIN items : SnapshotsOf(i)' # {}]_vars

\* the navigation of the first item failed, the second item was processed
\* with the same browser, and the run completed
C14_Witness ==
  /\ w.pc = "finished"
  /\ Len(snapshots) = 2
  /\ snapshots[1].status = "error"
  /\ snapshots[2].status = "missing"
  /\ snapshots[2].trackedItemId # snapshots[1].trackedItemId
  /\ browser.launched = 1 /\ browser.closes = 1

\* the invocations of tryDynamicScrape that hold an open page
HoldingPage == {t \in DOMAIN dyn : dyn[t].page}

\* C15: an invocation of tryDynamicScrape that has returned or thrown holds no
\* open page, whatever path it took; the open pages are exactly those of the
\* invocations inside their try block, so none is open between invocations.
C15_PagesAreClosed ==
  /\ \A t \in DOMAIN dyn :
       /\ dyn[t].pc \in {"returned", "threw", "ended"} => ~dyn[t].page
       /\ dyn[t].page => dyn[t].pc \in {"visit", "closing"}
  /\ browser.pages = Cardinality(HoldingPage)
  /\ (\A t \in DOMAIN dyn : dyn[t].pc \notin {"visit", "closing"}) => browser.pages = 0

\* one invocation threw on its navigation, the other returned a text, and
\* both have closed their page
C15_Witness ==
  /\ dyn # NoDyn
  /\ dyn[1].pc = "threw" /\ dyn[1].threw /\ dyn[1].inst # 0
  /\ dyn[2].pc = "returned" /\ dyn[2].text = T90
  /\ browser.pages = 0

\* the shared browser after a run: nothing launched is still open, and what
\* was launched was closed by exactly one closeBrowser()
Released == browser.open = {} /\ browser.shared = 0 /\ (browser.launched > 0 => browser.closes = 1)

\* C16: however the run ended (list completed, runOnce rejected, run aborted
\* by the host), the shared browser has been released by the cleanup path and
\* closed exactly once.
C16_BrowserReleased == w.pc \in {"finished", "failed", "aborted"} => Released

\* the part of C16 that the code keeps: a run that completed or rejected
C16_ReleasedUnlessAborted == w.pc \in {"finished", "failed"} => Released

\* a run that rejected after launching the browser, and closed it
C16_Witness == w.pc = "failed" /\ browser.launched = 1 /\ browser.closes = 1 /\ browser.open = {}

\* C17: in a sequential run a browser is launched only by an item's dynamic
\* tier with dynamic scraping enabled while none is running, so at most once;
\* a later item at the dynamic tier keeps the running instance; with dynamic
\* scraping disabled nothing is ever launched.
C17_LazySingleLaunch ==
  [][ /\ browser'.launched > browser.launched =>
           /\ w.pc = "dynamic" /\ enableDynamic
           /\ browser.launched = 0 /\ browser'.launched = 1
      /\ (w.pc = "dynamic" /\ w'.pc \in {"store", "catch"} /\ browser.shared # 0) =>
           /\ browser'.shared = browser.shared
           /\ browser'.launched = browser.launched
      /\ ~enableDynamic => browser'.launched = 0
      /\ browser'.launched <= 1 ]_vars

\* the second item of the run has been through the dynamic tier after the
\* first one had launched the browser
C17_Witness ==
  /\ enableDynamic /\ mode = "seq"
  /\ Len(snapshots) = 1 /\ snapshots[1].status = "missing"
  /\ w.queue = <<>> /\ w.dynamicTried /\ w.pc \in {"store", "catch"}
  /\ browser.launched = 1 /\ browser.shared = 1

\* C18: with tryDynamicScrape running for two items side by side, at most one
\* browser is launched, both invocations use that instance, and after
\* closeBrowser() no launched browser is open.
C18_SingleSharedBrowser ==
  /\ browser.launched <= 1
  /\ \A t, u \in DOMAIN dyn : (dyn[t].inst # 0 /\ dyn[u].inst # 0) => dyn[t].inst = dyn[u].inst
  /\ (dyn # NoDyn /\ \A t \in DOMAIN dyn : dyn[t].pc = "ended") => browser.open = {}

\* both invocations passed the sharedBrowser test before either launch had
\* resolved; the first instance is still open after closeBrowser()
C18_LeakedBrowser ==
  /\ dyn # NoDyn /\ \A t \in DOMAIN dyn : dyn[t].pc = "ended"
  /\ browser.launched = 2 /\ browser.closes = 1 /\ browser.open # {}

\* Snapshot s is the one an evaluation of item id created with the reading
\* numeric, and that reading satisfies the comparison of the loaded Trigger
OwnSnapshot(s, id, numeric, trig) ==
  /\ s \in 1..Len(snapshots)
  /\ snapshots[s].trackedItemId = id
  /\ triggers[trig.id].trackedItemId = id
  /\ snapshots[s].status = "ok"
  /\ IsNumber(numeric) /\ snapshots[s].valueNumeric = numeric
  /\ Holds(numeric, trig.comparison, trig.threshold)

\* C19: a TriggerEvent is only ever created by an evaluation, for a Trigger it
\* loaded, and it references the Snapshot that evaluation created itself: an
\* ok Snapshot of the Trigger's item whose valueNumeric satisfied the
\* comparison, whatever other Snapshots were inserted in the meantime.
C19_EventUsesOwnSnapshot ==
  [][ Len(events') > Len(events) =>
        LET e == events'[Len(events')]
        IN  /\ Len(events') = Len(events) + 1
            /\ \/ /\ w.pc = "create" /\ w'.pc = "stamp"
                  /\ e = [triggerId |-> w.trigs[w.ti].id, snapshotId |-> w.snapId]
                  /\ OwnSnapshot(w.snapId, w.id, w.numeric, w.trigs[w.ti])
               \/ \E r \in DOMAIN req :
                    /\ req[r].pc = "create" /\ req'[r].pc = "stamp"
                    /\ e = [triggerId |-> req[r].trigs[req[r].ti].id, snapshotId |-> req[r].snapId]
                    /\ OwnSnapshot(req[r].snapId, req[r].id, req[r].numeric, req[r].trigs[req[r].ti]) ]_vars

\* the worker created its event for Snapshot 1 after the route had inserted
\* Snapshot 2 for the same item and fired the Trigger on it
C19_Witness ==
  /\ mode = "par"
  /\ Len(events) = 2 /\ Len(snapshots) = 2
  /\ events[1].snapshotId = 2 /\ events[2].snapshotId = 1
  /\ snapshots[2].trackedItemId = snapshots[1].trackedItemId
  /\ w.snapId = 1 /\ w.pc = "stamp"

\* C20: every Snapshot with status missing or error has no valueNumeric and
\* an empty valueRaw; a Snapshot that has a valueNumeric has status ok.
C20_NumericOnlyOnOk ==
  \A k \in 1..Len(snapshots) :
    /\ snapshots[k].status \in {"ok", "missing", "error"}
    /\ snapshots[k].status \in {"missing", "error"} =>
         snapshots[k].valueNumeric = NoNumber /\ snapshots[k].valueRaw = <<>>
    /\ IsNumber(snapshots[k].valueNumeric) => snapshots[k].status = "ok"

\* a missing and an error Snapshot next to each other
C20_Witness ==
  /\ Len(snapshots) = 2
  /\ snapshots[1].status = "missing"
  /\ snapshots[2].status = "error"

\* C21: every invocation of processTrackedItem that has started its static
\* scrape returns; a server that never answers makes the item fail instead of
\* holding the run.
C21_InvocationTerminates == (w.pc = "static") ~> (w.pc = "ret")

\* the part of C21 that the code keeps: once the static tier has returned,
\* the navigation is bounded and the invocation returns
C21_NavigationTerminates == (w.pc = "dynamic") ~> (w.pc = "ret")

\* the worker is waiting for a fetch that never settles
C21_Hung == w.pc = "fetching" /\ w.id = 1 /\ snapshots = <<>>

\* Trigger t is one that an evaluation of the reading v has to skip
Skipped(t, v) ==
  /\ triggers[t].exists
  /\ \/ ~triggers[t].active
     \/ triggers[t].lastFiredAt # NoTime
     \/ ~Holds(v, triggers[t].comparison, triggers[t].threshold)

\* the step leaves the row and the TriggerEvents of every skipped Trigger alone
SkippedUntouched(v) ==
  \A t \in DOMAIN triggers :
    Skipped(t, v) => (triggers'[t] = triggers[t] /\ EventsOf(t)' = EventsOf(t))

\* an evaluation is under way only for an ok Snapshot that carries a number
EvaluatesOkNumbers ==
  /\ w.pc \in {"load", "create", "stamp"} =>
       snapshots[w.snapId].status = "ok" /\ IsNumber(snapshots[w.snapId].valueNumeric)
  /\ \A r \in DOMAIN req :
       (req[r].op = "snapshots" /\ req[r].pc \in {"load", "create", "stamp"}) =>
         snapshots[req[r].snapId].status = "ok" /\ IsNumber(snapshots[req[r].snapId].valueNumeric)

\* C22: a step of an evaluation creates no TriggerEvent for, and changes no
\* field of, a Trigger that is inactive, already fired or not matching; and
\* only an ok Snapshot with a number is ever evaluated.
C22_SkippedTriggersUntouched ==
  [][ /\ (w.pc \in {"create", "stamp"} /\ w' # w) => SkippedUntouched(w.numeric)
      /\ \A r \in DOMAIN req :
           (req[r].op = "snapshots" /\ req[r].pc \in {"create", "stamp"} /\ req'[r] # req[r]) =>
             SkippedUntouched(req[r].numeric)
      /\ EvaluatesOkNumbers /\ EvaluatesOkNumbers' ]_vars

\* an evaluation is about to create a TriggerEvent for a Trigger that another
\* evaluation has fired since this one loaded it
C22_FiresFiredTrigger ==
  /\ w.pc = "create"
  /\ triggers[w.trigs[w.ti].id].exists
  /\ triggers[w.trigs[w.ti].id].lastFiredAt # NoTime
  /\ Cardinality(EventsOf(w.trigs[w.ti].id)) = 1

\* s has the form: optional '-', a digit, further digits or commas, and
\* optionally '.' followed by at least one digit
IsToken(s) ==
  /\ s # <<>>
  /\ LET b == IF s[1] = "-" THEN Tail(s) ELSE s
     IN  /\ b # <<>>
         /\ IsDigit(b[1])
         /\ \E k \in 1..Len(b) :
              /\ \A i \in 1..k : b[i] \in Digits \cup {","}
              /\ \/ k = Len(b)
                 \/ /\ k + 2 <= Len(b)
                    /\ b[k + 1] = "."
                    /\ \A i \in (k + 2)..Len(b) : IsDigit(b[i])

\* the first token of t: the leftmost place where one starts, and the longest
\* one starting there
FirstToken(t) ==
  LET spans == {p \in (1..Len(t)) \X (1..Len(t)) : p[1] <= p[2] /\ IsToken(SubSeq(t, p[1], p[2]))}
      best  == CHOOSE p \in spans : \A q \in spans : p[1] < q[1] \/ (p[1] = q[1] /\ p[2] >= q[2])
  IN  SubSeq(t, best[1], best[2])

\* the decimal a token denotes once its commas are dropped
TokenValue(tok) ==
  LET digits == SelectSeq(tok, IsDigit)
      dots   == {i \in 1..Len(tok) : tok[i] = "."}
      frac   == IF dots = {} THEN 0 ELSE Len(tok) - (CHOOSE i \in dots : TRUE)
      mag    == DigitsToInt(digits)
  IN  [n |-> IF tok[1] = "-" THEN 0 - mag ELSE mag, d |-> frac]

\* C23: parseNumericFromText returns null exactly for a text without a
\* digit, and otherwise the exact value of the first token with its commas
\* removed.
C23_ParsesFirstToken ==
  (call.fn = "parseNumericFromText" /\ call.done) =>
    IF \A i \in 1..Len(call.text) : ~IsDigit(call.text[i])
    THEN call.result = NoNumber
    ELSE /\ IsNumber(call.result)
         /\ NumEq(call.result, TokenValue(FirstToken(call.text)))

\* "$1,234.56" has been parsed to 1234.56
C23_Witness ==
  /\ call.fn = "parseNumericFromText" /\ call.done
  /\ call.text = <<"$", "1", ",", "2", "3", "4", ".", "5", "6">>
  /\ call.result = [n |-> 123456, d |-> 2]

\* C24: tryDynamicScrape returns the trimmed text of the first literal match
\* when it is non-empty, without going to the fingerprint; otherwise what the
\* fingerprint fallback returns; and null when that is null too.
C24_LiteralThenFingerprint ==
  (call.fn = "tryDynamicScrape" /\ call.done) =>
    LET lit == IF Len(call.literal) > 0 THEN Trim(call.literal[1]) ELSE <<>>
        fp  == tryFingerprintFallback(call.fingerprint, call.fpMatches)
    IN  /\ ~call.result.threw
        /\ IF lit # <<>>
           THEN call.result.text = lit /\ call.result.tier = "literal"
           ELSE IF fp # NullText
           THEN call.result.text = fp /\ call.result.tier = "fingerprint"
           ELSE call.result.text = NullText

\* the first literal match is blank and the second is not: the text comes
\* from the fingerprint
C24_Witness ==
  /\ call.fn = "tryDynamicScrape" /\ call.done
  /\ Len(call.literal) = 2
  /\ Trim(call.literal[1]) = <<>> /\ Trim(call.literal[2]) = T90
  /\ call.result.tier = "fingerprint" /\ call.result.text = T90

\* the classes of a fragment: each one behind a dot
RECURSIVE ClassTokens(_)
ClassTokens(cls) ==
  IF cls = <<>> THEN <<>> ELSE <<".", cls[1]>> \o ClassTokens(Tail(cls))

\* the fragment of one Node Descriptor: its tag (div when it has none), its
\* non-empty classes, and :nth-of-type(n) when n is set
Fragment(node) ==
  <<IF node.tag = "" THEN "div" ELSE node.tag>>
    \o ClassTokens(SelectSeq(node.classes, LAMBDA c : c # ""))
    \o (IF node.nthOfType > 0 THEN <<":nth-of-type(", ToString(node.nthOfType), ")">> ELSE <<>>)

\* the fragments of a non-empty path, in path order, with sep between them
RECURSIVE Joined(_, _)
Joined(path, sep) ==
  IF Len(path) = 1 THEN Fragment(path[1])
  ELSE Joined(SubSeq(path, 1, Len(path) - 1), sep) \o <<sep>> \o Fragment(path[Len(path)])

\* cssFromFingerprint has returned for a fingerprint with a non-empty path
CssBuilt ==
  /\ call.fn = "cssFromFingerprint" /\ call.done
  /\ call.fingerprint.hasPath /\ Len(call.fingerprint.path) > 0

\* C25 as claimed: the selector is the fragments of the path, in order, joined
\* with descendant combinators (a space).
C25_JoinedByDescendant == CssBuilt => call.result = Joined(call.fingerprint.path, " ")

\* C25 as amended: the selector is the fragments of the path, in order and
\* one per node, joined with child combinators (" > "); without a path it is
\* empty.
C25_JoinedByChild ==
  (call.fn = "cssFromFingerprint" /\ call.done) =>
    IF CssBuilt
    THEN /\ call.result = Joined(call.fingerprint.path, " > ")
         /\ Cardinality({i \in 1..Len(call.result) : call.result[i] = " > "})
              = Len(call.fingerprint.path) - 1
    ELSE call.result = <<>>

\* a path of two different nodes, one with an empty class and one without
\* nthOfType, has been turned into a selector
C25_Witness ==
  /\ CssBuilt
  /\ Len(call.fingerprint.path) = 2
  /\ call.fingerprint.path[1] = [tag |-> "div", classes |-> <<"price", "">>, nthOfType |-> 0]
  /\ call.fingerprint.path[2] = [tag |-> "span", classes |-> <<"card", "price">>, nthOfType |-> 2]
  /\ call.result = <<"div", ".", "price", " > ", "span", ".", "card", ".", "price",
                     ":nth-of-type(", "2", ")">>

\* C26: for every value, comparison and threshold the live route and the
\* batch worker decide the same, namely the standard relation the comparison
\* names, and no match for any other comparison string.
C26_SitesAgree ==
  (call.fn = "compare" /\ call.done) =>
    /\ call.route = call.worker
    /\ call.route = Holds(call.value, call.comparison, call.threshold)
    /\ call.comparison \notin {"lt", "lte", "gt", "gte", "eq", "neq"} => ~call.route /\ ~call.worker

\* 99.99 against 99.99 under lte: both sites report a match
C26_Witness ==
  /\ call.fn = "compare" /\ call.done
  /\ call.comparison = "lte"
  /\ call.value = [n |-> 9999, d |-> 2] /\ call.threshold = [n |-> 9999, d |-> 2]
  /\ call.route /\ call.worker

\* C27: with evaluations of the same item overlapping (the batch worker and a
\* POST /:id/snapshots request in flight together), every Trigger still has at
\* most one TriggerEvent.
C27_OneEventUnderOverlap ==
  mode = "par" => \A t \in DOMAIN triggers : Cardinality(EventsOf(t)) <= 1

\* both evaluations loaded the unfired Trigger before either stamped it, and
\* each created its TriggerEvent
C27_FiredTwice ==
  /\ mode = "par"
  /\ Cardinality(EventsOf(1)) = 2
  /\ \E j, k \in EventsOf(1) : events[j].snapshotId # events[k].snapshotId
  /\ triggers[1].exists /\ triggers[1].lastFiredAt # NoTime

\* no evaluation is under way: the worker is between invocations and every
\* request has been answered
NoEvaluationRunning ==
  /\ w.pc \in {"start", "loop", "ret", "finished", "aborted"}
  /\ \A r \in DOMAIN req : req[r].pc \in {"idle", "done"}

\* C28: once every evaluation has ended, completed or failed part-way, a
\* Trigger has lastFiredAt set exactly when a TriggerEvent exists for it.
C28_StampedIffFired ==
  NoEvaluationRunning =>
    \A t \in DOMAIN triggers :
      triggers[t].exists => (triggers[t].lastFiredAt # NoTime <=> EventsOf(t) # {})

\* the run was stopped between triggerEvent.create and trigger.update: the
\* Trigger has its TriggerEvent and no lastFiredAt
C28_FiredNotStamped ==
  /\ w.pc = "aborted"
  /\ \E t \in DOMAIN triggers :
       /\ triggers[t].exists /\ triggers[t].lastFiredAt = NoTime
       /\ Cardinality(EventsOf(t)) = 1

\* C29: the step of processTrackedItem that writes the error Snapshot is
\* taken only by an invocation that has not stored its ok Snapshot.
C29_ErrorOnlyWithoutOk ==
  [][ (w.pc = "catch" /\ w'.pc = "ret" /\ Len(snapshots') = Len(snapshots) + 1) =>
        ~(w.snapId # 0 /\ snapshots[w.snapId].status = "ok") ]_vars

\* one invocation has returned with an ok Snapshot followed by its own error
\* Snapshot
C29_OkThenError ==
  /\ w.pc = "ret" /\ w.made = 2
  /\ snapshots[w.snapId].status = "ok" /\ snapshots[w.snapId].trackedItemId = w.id
  /\ snapshots[Len(snapshots)].status = "error" /\ snapshots[Len(snapshots)].trackedItemId = w.id

\* C30: consecutiveFailures of an item is never negative and counts the
\* failure reports written since its last reset: the step that completes a
\* failure report raises the count of its item by exactly one, the item update
\* of a snapshot report or of a repair sets it to zero, and no other step
\* changes any count, whatever other requests are in flight.
FailureReported(i) ==
  \E r \in DOMAIN req : /\ req[r].op = "failure"
                        /\ req[r].pc = "update_item"
                        /\ req[r].id = i
                        /\ req'[r].pc = "done"

ResetWritten(i) ==
  \E r \in DOMAIN req : /\ req[r].op \in {"snapshots", "repair"}
                        /\ req[r].pc = "update_item"
                        /\ req[r].id = i
                        /\ req'[r].pc # "update_item"

C30_CountsEveryReport ==
  [][\A i \in DOMAIN items :
       /\ items'[i].consecutiveFailures >= 0
       /\ items'[i].consecutiveFailures =
            IF ResetWritten(i) THEN 0
            ELSE IF FailureReported(i) THEN items[i].consecutiveFailures + 1
            ELSE items[i].consecutiveFailures]_vars

\* two failure reports of item 1 that both read the row before either wrote,
\* both answered, and no reset since: the count is 2
C30_Witness ==
  /\ \A r \in {1, 2} : /\ req[r].op = "failure"
                       /\ req[r].pc = "done"
                       /\ req[r].status = 200
                       /\ req[r].id = 1
                       /\ req[r].item.consecutiveFailures = 0
  /\ items[1].lastSuccessAt = NoTime
  /\ items[1].consecutiveFailures = 2

====
